---- MODULE Spec2Model ----
(***************************************************************************)
(* A state-machine model of hako-crawler: the proxy pool, the books index, *)
(* the network manager (retrying fetch, proxy failover, domain rotation,   *)
(* anti-ban pause, streamed download to a file) and the novel downloader   *)
(* (volume download with its chapter cache).                               *)
(*                                                                         *)
(* Every component has its own specification (SpecPool, SpecBooksConc,     *)
(* SpecNet, SpecCall, SpecSocks, SpecDl, ...); the variables of the other  *)
(* components keep their initial value under it.                           *)
(***************************************************************************)
EXTENDS Integers, Sequences, FiniteSets, TLC

VARIABLES
    \* ---- ProxyPool
    proxies,        \* ProxyPool.proxies: sequence of descriptors (<<>>: no pool)
    currentIndex,   \* ProxyPool.currentIndex (0-based)
    returned,       \* history: what getNextProxy returned since construction/reset
    \* ---- books.json and the addBookToList calls in flight
    booksFile,      \* the array stored in books.json
    bproc,          \* per caller: position in addBookToList and its local list
    lastBook,       \* history: the last completed sequential call on books.json
    \* ---- NetworkManager
    requestCount,   \* NetworkManager.requestCount
    call,           \* the fetchWithRetry / downloadToFile activation in progress
    file,           \* what is stored at downloadToFile's savePath
    reqNo,          \* history: 0-based ordinal of the current call (saturates)
    sincePause,     \* history: counted requests since the last anti-ban pause
    \* ---- NovelDownloader and its base folder
    record,         \* the volume record <slug>.json
    images,         \* the chapter image files under images/, by local name
    cover,          \* the volume cover file under images/
    run,            \* the downloadVolume activation in progress
    \* ---- calls of the program's functions: arguments, files seen, result
    validation,     \* a validateCachedChapter call
    metadata,       \* the metadata.json written last, with what it was written from
    footnotes,      \* processFootnotes calls on one HTML under two chapter slugs
    proxyUrl,       \* a proxy URL or descriptor given to the proxy utilities, and their results
    filename,       \* a string given to formatFilename, and the results of one and two passes
    builder,        \* an EpubBuilder: its mode, image cache and files, its last processImage call
    unpacked,       \* the image files an unpacking left under <base>/images/, and its container
    parser,         \* NovelParser.parse: the url given, the result, the calls of fetchWithRetry
    socks           \* a request through SOCKS5 proxies: the proxy in turn, the attempt's phase, timer and socket

poolVars == <<proxies, currentIndex, returned>>
bookVars == <<booksFile, bproc, lastBook>>
netVars == <<requestCount, call, file, reqNo, sincePause>>
dlVars == <<record, images, cover, run>>
coreVars == <<poolVars, bookVars, netVars, dlVars>>
utilVars == <<validation, metadata, footnotes, proxyUrl, filename, builder, unpacked, parser, socks>>
vars == <<coreVars, utilVars>>

\* ------------------------------------------------------------------ bounds
MaxProxies == 3
MaxPoolCalls == 6
\* fetchWithRetry calls start while requestCount is below this
MaxRequests == 101
\* downloadToFile calls start while requestCount is below this
MaxDlRequests == 2
\* the ordinal of a call is tracked up to this
MaxReqNo == 3
\* chunks of the longest response body streamed to disk
BodyChunks == 2
\* chapters of a catalog volume
MaxChapters == 2
\* <img> elements of a chapter page
MaxImgs == 1
\* chunks of an image response's body
ImgChunks == 1
\* calls of downloadVolume on the volume (a download, then a resume)
MaxRuns == 2
\* entries of books.json when a sequence of sequential calls starts
MaxBooks == 3
\* <img> elements of a cached chapter's content
MaxCachedImgs == 2
\* volumes of a catalog
MaxVolumes == 3
\* top-level entries of a container's table of contents
MaxToc == 2
\* children of a top-level entry
MaxChildren == 1
\* items of a container's spine
MaxSpine == 2
\* <img> elements of a document of a container
MaxSrcs == 2
\* definitions, markers and anchors of a chapter's HTML
MaxHtmlItems == 3
\* runs of one character in a name given to formatFilename
MaxNameRuns == 3

\* ------------------------------------------------------------------ helpers
Range(s) == {s[i] : i \in 1..Len(s)}

SeqsUpTo(S, n) == UNION {[1..k -> S] : k \in 0..n}

\* ================================================================ ProxyPool
\* A descriptor stands for one parsed proxy URL; the pool may hold the same
\* URL twice (the constructor maps every URL it is given).
Descriptors == 1..MaxProxies

PoolIdle ==
    /\ proxies = <<>>
    /\ currentIndex = 0
    /\ returned = <<>>

\* new ProxyPool(urls): at least one URL, cursor 0.
PoolInit ==
    /\ proxies \in (SeqsUpTo(Descriptors, MaxProxies) \ {<<>>})
    /\ currentIndex = 0
    /\ returned = <<>>

NextIndexStuck(cur, n) == IF cur + 1 < n THEN cur + 1 ELSE cur

\* this.currentIndex = (this.currentIndex + 1) % this.proxies.length
NextIndex(cur, n) == (cur + 1) % n

\* getNextProxy(): the descriptor at the cursor, then the cursor advances.
GetNextProxy ==
    /\ Len(returned) < MaxPoolCalls
    /\ returned' = Append(returned,
                          [pos |-> currentIndex, proxy |-> proxies[currentIndex + 1]])
    /\ currentIndex' = NextIndex(currentIndex, Len(proxies))
    /\ UNCHANGED <<proxies, bookVars, netVars, dlVars, utilVars>>

\* reset(): the rotation starts again at the first descriptor.
PoolReset ==
    /\ returned # <<>>
    /\ currentIndex' = 0
    /\ returned' = <<>>
    /\ UNCHANGED <<proxies, bookVars, netVars, dlVars, utilVars>>

\* ============================================================== books.json
Slugs == {"a", "b", "c"}
BookProcs == {1, 2}

NoBookCall == [op |-> "none", slug |-> "a", ret |-> FALSE, before |-> <<>>]

BooksIdle ==
    /\ booksFile = <<>>
    /\ bproc = [p \in BookProcs |-> [pc |-> "idle", slug |-> "a", list |-> <<>>, ret |-> FALSE]]
    /\ lastBook = NoBookCall

BooksInit == BooksIdle

\* booksList.includes(folderName)
Includes(list, s) == \E i \in 1..Len(list) : list[i] = s

\* addBookToList, up to the end of `await readBooksList()`: the caller holds
\* the array it read (a missing file reads as []).
AddRead(p, s) ==
    /\ bproc[p].pc \in {"idle", "done"}
    /\ bproc' = [bproc EXCEPT ![p] = [pc |-> "read", slug |-> s, list |-> booksFile, ret |-> FALSE]]
    /\ UNCHANGED <<booksFile, lastBook, poolVars, netVars, dlVars, utilVars>>

\* addBookToList, from the includes() test to its return: false when the slug
\* is in the array read, else the array read plus the slug replaces the file.
AddWrite(p) ==
    /\ bproc[p].pc = "read"
    /\ IF Includes(bproc[p].list, bproc[p].slug)
         THEN /\ bproc' = [bproc EXCEPT ![p].pc = "done", ![p].ret = FALSE]
              /\ UNCHANGED booksFile
         ELSE /\ booksFile' = Append(bproc[p].list, bproc[p].slug)
              /\ bproc' = [bproc EXCEPT ![p].pc = "done", ![p].ret = TRUE,
                                        ![p].list = Append(bproc[p].list, bproc[p].slug)]
    /\ UNCHANGED <<lastBook, poolVars, netVars, dlVars, utilVars>>

\* The duplicate-free arrays over Slugs: what books.json may hold when a
\* sequence of sequential calls starts.
BooksSeqInit ==
    /\ booksFile \in {l \in SeqsUpTo(Slugs, MaxBooks) :
                        \A i, j \in 1..Len(l) : l[i] = l[j] => i = j}
    /\ bproc = [p \in BookProcs |-> [pc |-> "idle", slug |-> "a", list |-> <<>>, ret |-> FALSE]]
    /\ lastBook = NoBookCall

\* booksList.indexOf(folderName), 0-based, -1 when absent
IndexOf(list, s) ==
    IF Includes(list, s)
      THEN (CHOOSE i \in 1..Len(list) : list[i] = s /\ \A j \in 1..(i - 1) : list[j] # s) - 1
      ELSE -1

\* booksList.splice(index, 1)
Splice1(list, index) ==
    SubSeq(list, 1, index) \o SubSeq(list, index + 2, Len(list))

AddBookToListAlways(list, folderName) ==
    [list |-> Append(list, folderName), ret |-> TRUE]

\* addBookToList(folderName) on the array read: the array to store and the
\* value returned
AddBookToList(list, folderName) ==
    IF Includes(list, folderName)
      THEN [list |-> list, ret |-> FALSE]
      ELSE [list |-> Append(list, folderName), ret |-> TRUE]

\* removeBookFromList(folderName) on the array read
RemoveBookFromList(list, folderName) ==
    IF IndexOf(list, folderName) = -1
      THEN [list |-> list, ret |-> FALSE]
      ELSE [list |-> Splice1(list, IndexOf(list, folderName)), ret |-> TRUE]

\* One whole addBookToList call, no other call in between.
AddBook(s) ==
    /\ \A p \in BookProcs : bproc[p].pc = "idle"
    /\ LET r == AddBookToList(booksFile, s)
       IN /\ booksFile' = r.list
          /\ lastBook' = [op |-> "add", slug |-> s, ret |-> r.ret, before |-> booksFile]
    /\ UNCHANGED <<bproc, poolVars, netVars, dlVars, utilVars>>

\* One whole removeBookFromList call, no other call in between.
RemoveBook(s) ==
    /\ \A p \in BookProcs : bproc[p].pc = "idle"
    /\ LET r == RemoveBookFromList(booksFile, s)
       IN /\ booksFile' = r.list
          /\ lastBook' = [op |-> "remove", slug |-> s, ret |-> r.ret, before |-> booksFile]
    /\ UNCHANGED <<bproc, poolVars, netVars, dlVars, utilVars>>

\* ========================================================== NetworkManager
\* A hostname is its sequence of labels: "i.docln.net" is <<"i","docln","net">>.
DOMAINS == << <<"docln", "net">>, <<"ln", "hako", "vn">>, <<"docln", "sbs">> >>

IMAGE_DOMAINS == << <<"i", "hako", "vip">>, <<"i", "docln", "net">>, <<"ln", "hako", "vn">>,
                    <<"i2", "docln", "net">>, <<"i2", "hako", "vip">> >>

MAX_RETRIES == 3
REQUESTS_BEFORE_PAUSE == 100
ANTI_BAN_PAUSE == 30000
maxRateLimitRetries == 5

\* The hosts of the URLs the calls are made with: a primary host, the host
\* that is in both lists, an image host, a subdomain of a primary host and
\* a host outside both lists.
UrlHosts == { <<"docln", "net">>, <<"ln", "hako", "vn">>, <<"i", "hako", "vip">>,
              <<"www", "docln", "sbs">>, <<"example", "com">> }

\* The statuses a server answers with.
Statuses == {200, 429, 500}

\* hostname === domain || hostname.endsWith(`.${domain}`)
HostMatches(hostname, domain) ==
    \/ hostname = domain
    \/ /\ Len(hostname) > Len(domain)
       /\ SubSeq(hostname, Len(hostname) - Len(domain) + 1, Len(hostname)) = domain

\* isInternalDomain(url)
IsInternalDomain(hostname) ==
    \/ \E i \in 1..Len(DOMAINS) : HostMatches(hostname, DOMAINS[i])
    \/ \E i \in 1..Len(IMAGE_DOMAINS) : HostMatches(hostname, IMAGE_DOMAINS[i])

\* rotateDomainsAndRetry: the list the rotation goes through
DomainList(originalHost) ==
    IF \E i \in 1..Len(IMAGE_DOMAINS) : HostMatches(originalHost, IMAGE_DOMAINS[i])
      THEN IMAGE_DOMAINS
      ELSE DOMAINS

\* rotateDomainsAndRetry: the next index after `from` whose domain is not the
\* original host (Len + 1 when the list is exhausted)
NextCandidate(originalHost, from) ==
    LET list == DomainList(originalHost)
        S == {j \in (from + 1)..Len(list) : list[j] # originalHost}
    IN IF S = {} THEN Len(list) + 1 ELSE CHOOSE j \in S : \A k \in S : j <= k

ResponseOkLoose(status) == status >= 200

\* response.ok
ResponseOk(status) == status >= 200 /\ status <= 299

\* applyAntiBan's condition
AntiBanDue(count) == count > 0 /\ count % REQUESTS_BEFORE_PAUSE = 0

NoError == [kind |-> "none", status |-> 0]
HttpError(status) == [kind |-> "Http", status |-> status]
RateLimited == [kind |-> "RateLimited", status |-> 429]
TransportError == [kind |-> "Transport", status |-> 0]
AllProxiesFailed == [kind |-> "ProxyError", status |-> 0]

NoFile == [kind |-> "missing", size |-> 0, complete |-> FALSE]

\* No call has been made yet.
NoCall ==
    [op |-> "none", pc |-> "idle", host |-> <<>>,
     attempt |-> 0, rateLimitRetries |-> 0, lastError |-> NoError,
     status |-> 0, i |-> 0, rot |-> 0, sleepMs |-> 0,
     result |-> [kind |-> "none", status |-> 0, error |-> NoError],
     dl |-> "none",
     \* history of this call
     tried |-> <<>>, firstProxy |-> -1, counted |-> FALSE,
     dispatches |-> 0, netCalled |-> FALSE,
     \* the last network request of this call: how it went out, to which host
     via |-> "none", target |-> <<>>,
     shortcut |-> FALSE, wrote |-> FALSE, fileAtStart |-> NoFile]

\* No activation is in progress: a new call may start.
CallOver(c) ==
    \/ c.pc \in {"idle", "thrown", "dl_done"}
    \/ c.pc = "returned" /\ c.op = "fetch"

\* downloadToFile's catch: a fetchWithRetry that threw makes it return false.
DlCatch(c) ==
    IF c.op = "download" /\ c.pc = "thrown"
      THEN [c EXCEPT !.pc = "dl_done", !.dl = "false"]
      ELSE c

\* fetchWithRetry returns the response.
Return(c, status) ==
    [c EXCEPT !.pc = "returned",
              !.result = [kind |-> "response", status |-> status, error |-> NoError]]

\* fetchWithRetry throws.
Throw(c, error) ==
    DlCatch([c EXCEPT !.pc = "thrown",
                      !.result = [kind |-> "error", status |-> 0, error |-> error]])

AfterAttemptOneMore(c) ==
    IF c.attempt < MAX_RETRIES
      THEN [c EXCEPT !.pc = "backoff", !.sleepMs = (2 ^ c.attempt) * 1000]
      ELSE Throw([c EXCEPT !.attempt = c.attempt + 1], c.lastError)

\* The end of the loop body: the backoff sleep when attempts remain, else
\* attempt++ ends the loop and the last error is thrown.
AfterAttempt(c) ==
    IF c.attempt < MAX_RETRIES - 1
      THEN [c EXCEPT !.pc = "backoff", !.sleepMs = (2 ^ c.attempt) * 1000]
      ELSE Throw([c EXCEPT !.attempt = c.attempt + 1], c.lastError)

\* rotateDomainsAndRetry returned null.
RotationFailed(c) ==
    AfterAttempt(IF c.status # 0
                   THEN [c EXCEPT !.lastError = HttpError(c.status)]
                   ELSE c)

\* The rotation starts (or, with no other domain in the list, fails at once).
StartRotation(c) ==
    LET first == NextCandidate(c.host, 0) IN
    IF first > Len(DomainList(c.host))
      THEN RotationFailed(c)
      ELSE [c EXCEPT !.pc = "rotate", !.rot = first]

RateLimitBudgetLeftOneMore(n) == n <= maxRateLimitRetries + 1

\* rateLimitRetries <= maxRateLimitRetries, after rateLimitRetries++
RateLimitBudgetLeft(n) == n <= maxRateLimitRetries

RotationEligibleWithPool(pooled, hostname) == IsInternalDomain(hostname)

\* !this.proxyPool && this.isInternalDomain(url)
RotationEligible(pooled, hostname) == ~pooled /\ IsInternalDomain(hostname)

\* fetchWithRetry, from `if (response.ok)` to the next await.
OnResponse(c, status, pooled) ==
    LET c1 == [c EXCEPT !.status = status] IN
    IF ResponseOk(status)
      THEN Return(c1, status)
    ELSE IF status = 429
      THEN IF RateLimitBudgetLeft(c.rateLimitRetries + 1)
             THEN [c1 EXCEPT !.rateLimitRetries = c.rateLimitRetries + 1,
                             !.pc = "wait429",
                             !.sleepMs = (IF 30 * (c.rateLimitRetries + 1) < 120
                                            THEN 30 * (c.rateLimitRetries + 1)
                                            ELSE 120) * 1000]
             ELSE Throw([c1 EXCEPT !.rateLimitRetries = c.rateLimitRetries + 1,
                                   !.lastError = RateLimited],
                        RateLimited)
    ELSE IF RotationEligible(pooled, c.host)
      THEN StartRotation(c1)
    ELSE AfterAttempt([c1 EXCEPT !.lastError = HttpError(status)])

\* fetchWithRetry's catch for a direct fetch that rejected.
OnTransportError(c) ==
    LET c1 == [c EXCEPT !.status = 0, !.lastError = TransportError] IN
    IF IsInternalDomain(c.host)
      THEN StartRotation(c1)
      ELSE AfterAttempt(c1)

\* fetchWithRetry's entry: the anti-ban gate, then the first attempt.
BeginCall(o, h) ==
    [NoCall EXCEPT !.op = o, !.host = h, !.fileAtStart = file,
                   !.pc = IF AntiBanDue(requestCount) THEN "antiban" ELSE "attempt",
                   !.sleepMs = IF AntiBanDue(requestCount) THEN ANTI_BAN_PAUSE ELSE 0]

NextReqNo == IF reqNo < MaxReqNo THEN reqNo + 1 ELSE reqNo

NetIdle ==
    /\ requestCount = 0
    /\ call = NoCall
    /\ file = NoFile
    /\ reqNo = -1
    /\ sincePause = 0

\* new NetworkManager(options): no pool, or a pool of the proxies given.
NetInit ==
    /\ \E n \in 0..MaxProxies : proxies = [k \in 1..n |-> k]
    /\ currentIndex = 0
    /\ returned = <<>>
    /\ requestCount = 0
    /\ call = NoCall
    /\ reqNo = -1
    /\ sincePause = 0

\* history: one more dispatch of the original URL, a network call was made
Dispatched(c) ==
    [c EXCEPT !.dispatches = c.dispatches + 1, !.netCalled = TRUE,
              !.via = "direct", !.target = c.host]

\* fetchWithRetry(url) is called.
StartFetch(h) ==
    /\ CallOver(call)
    /\ requestCount < MaxRequests
    /\ call' = BeginCall("fetch", h)
    /\ reqNo' = NextReqNo
    /\ UNCHANGED <<requestCount, file, sincePause, poolVars, bookVars, dlVars, utilVars>>

\* applyAntiBan's sleep ends.
AntiBanDone ==
    /\ call.pc = "antiban"
    /\ call' = [call EXCEPT !.pc = "attempt"]
    /\ sincePause' = 0
    /\ UNCHANGED <<requestCount, file, reqNo, poolVars, bookVars, dlVars, utilVars>>

\* One attempt without a pool: fetch(url) answers (and is counted) or rejects.
DirectFetch ==
    /\ call.pc = "attempt"
    /\ proxies = <<>>
    /\ \/ \E st \in Statuses :
            /\ call' = OnResponse([Dispatched(call) EXCEPT !.counted = TRUE], st, FALSE)
            /\ requestCount' = requestCount + 1
            /\ sincePause' = sincePause + 1
       \/ /\ call' = OnTransportError(Dispatched(call))
          /\ UNCHANGED <<requestCount, sincePause>>
    /\ UNCHANGED <<file, reqNo, poolVars, bookVars, dlVars, utilVars>>


FailoverExhaustedEarly(i, n) == i >= 1

\* fetchWithProxyFailover: the loop `for (i = 0; i < proxies.length; i++)` is over
FailoverExhausted(i, n) == i >= n

\* One attempt with a pool, one proxy of fetchWithProxyFailover at a time:
\* fetchViaProxy through proxies[i] answers (and is counted) or throws; after
\* the last proxy has thrown, ProxyError "All proxies failed" goes through
\* fetchWithRetry's catch, which rethrows it.
ProxyFetch ==
    /\ call.pc \in {"attempt", "failover"}
    /\ proxies # <<>>
    /\ LET c0 == IF call.pc = "attempt"
                   THEN [call EXCEPT !.i = 0, !.tried = <<>>,
                                     !.dispatches = call.dispatches + 1]
                   ELSE call
           c1 == [c0 EXCEPT !.firstProxy = IF c0.firstProxy = -1 THEN c0.i ELSE c0.firstProxy,
                            !.netCalled = TRUE, !.via = "proxy", !.target = c0.host]
       IN \/ \E st \in Statuses :
               /\ call' = OnResponse(
                            [c1 EXCEPT !.counted = TRUE,
                                       !.tried = Append(c1.tried, [pos |-> c1.i, ok |-> TRUE])],
                            st, TRUE)
               /\ requestCount' = requestCount + 1
               /\ sincePause' = sincePause + 1
          \/ /\ LET c2 == [c1 EXCEPT !.i = c1.i + 1,
                                     !.tried = Append(c1.tried, [pos |-> c1.i, ok |-> FALSE])]
                IN call' = IF FailoverExhausted(c2.i, Len(proxies))
                             THEN Throw([c2 EXCEPT !.lastError = AllProxiesFailed],
                                        AllProxiesFailed)
                             ELSE [c2 EXCEPT !.pc = "failover"]
             /\ UNCHANGED <<requestCount, sincePause>>
    /\ UNCHANGED <<file, reqNo, poolVars, bookVars, dlVars, utilVars>>

\* rotateDomainsAndRetry, one domain of the list at a time: the fetch on the
\* replaced host answers (and is counted; a 2xx is returned) or rejects.
RotateFetch ==
    /\ call.pc = "rotate"
    /\ LET next == NextCandidate(call.host, call.rot)
           sent == [call EXCEPT !.netCalled = TRUE, !.via = "rotation",
                                !.target = DomainList(call.host)[call.rot]]
           more == [sent EXCEPT !.rot = next]
           after == IF next > Len(DomainList(call.host))
                      THEN RotationFailed(more)
                      ELSE more
       IN \/ \E st \in Statuses :
               /\ call' = IF ResponseOk(st)
                            THEN Return([sent EXCEPT !.counted = TRUE], st)
                            ELSE [after EXCEPT !.counted = TRUE]
               /\ requestCount' = requestCount + 1
               /\ sincePause' = sincePause + 1
          \/ /\ call' = after
             /\ UNCHANGED <<requestCount, sincePause>>
    /\ UNCHANGED <<file, reqNo, poolVars, bookVars, dlVars, utilVars>>

\* The backoff sleep ends: attempt++ and the next attempt.
BackoffDone ==
    /\ call.pc = "backoff"
    /\ call' = [call EXCEPT !.attempt = call.attempt + 1, !.pc = "attempt"]
    /\ UNCHANGED <<requestCount, file, reqNo, sincePause, poolVars, bookVars, dlVars, utilVars>>

ContinueAfterWaitConsuming(c) == [c EXCEPT !.attempt = c.attempt + 1, !.pc = "attempt"]

\* attempt--; continue; and the loop's attempt++
ContinueAfterWait(c) == [c EXCEPT !.attempt = (c.attempt - 1) + 1, !.pc = "attempt"]

\* The 429 wait ends: attempt--, continue, attempt++.
Wait429Done ==
    /\ call.pc = "wait429"
    /\ call' = ContinueAfterWait(call)
    /\ UNCHANGED <<requestCount, file, reqNo, sincePause, poolVars, bookVars, dlVars, utilVars>>

\* resetRequestCount(), between two calls
ResetRequestCount ==
    /\ CallOver(call)
    /\ requestCount > 0
    /\ requestCount' = 0
    /\ sincePause' = 0
    /\ UNCHANGED <<call, file, reqNo, poolVars, bookVars, dlVars, utilVars>>

\* ---------------------------------------------------------- downloadToFile
FileExistsAnySize(f) == f.kind = "file"

\* fileExistsWithContent: stats.isFile() && stats.size > 0
FileExistsWithContent(f) == f.kind = "file" /\ f.size > 0

\* What may be at savePath before the first call: nothing, a directory, an
\* empty file, a file with content.
FileInit ==
    file \in { NoFile,
               [kind |-> "dir", size |-> 0, complete |-> FALSE],
               [kind |-> "file", size |-> 0, complete |-> TRUE],
               [kind |-> "file", size |-> BodyChunks, complete |-> TRUE] }

\* downloadToFile(url, savePath) is called: true at once when the file has
\* content, else ensureDir and fetchWithRetry(url).
StartDownload(h) ==
    /\ CallOver(call)
    /\ requestCount < MaxDlRequests
    /\ call' = IF FileExistsWithContent(file)
                 THEN [NoCall EXCEPT !.op = "download", !.host = h, !.fileAtStart = file,
                                     !.pc = "dl_done", !.dl = "true", !.shortcut = TRUE]
                 ELSE BeginCall("download", h)
    /\ reqNo' = NextReqNo
    /\ UNCHANGED <<requestCount, file, sincePause, poolVars, bookVars, dlVars, utilVars>>

\* downloadToFile after fetchWithRetry returned: false when the response has
\* no body; else createWriteStream(savePath) and pipeline(body, stream). A
\* directory at savePath makes the stream fail. The body has `total` chunks,
\* `written` of them reach the file before the stream ends or breaks.
DlStream ==
    /\ call.pc = "returned"
    /\ call.op = "download"
    /\ \/ /\ call' = [call EXCEPT !.pc = "dl_done", !.dl = "false"]
          /\ UNCHANGED file
       \/ /\ file.kind = "dir"
          /\ call' = [call EXCEPT !.pc = "dl_done", !.dl = "false"]
          /\ UNCHANGED file
       \/ /\ file.kind # "dir"
          /\ \E total \in 0..BodyChunks : \E written \in 0..total :
               /\ file' = [kind |-> "file", size |-> written, complete |-> (written = total)]
               /\ call' = [call EXCEPT !.pc = "dl_done", !.wrote = TRUE,
                                       !.dl = IF written = total THEN "true" ELSE "false"]
    /\ UNCHANGED <<requestCount, reqNo, sincePause, poolVars, bookVars, dlVars, utilVars>>

\* ========================================================= NovelDownloader
\* One volume of the catalog, its record <slug>.json and the chapter images
\* under images/. fetchWithRetry and the streaming of downloadToFile are the
\* network's answer here: a chapter fetch returns a page or throws, an image
\* download goes the way of DlStream.
MIN_CONTENT_LENGTH == 50

ChapterUrls == {"u1", "u2"}
ChapterNames == {"A"}
ImgUrls == {"x"}
ContentLens == {MIN_CONTENT_LENGTH - 1, MIN_CONTENT_LENGTH}

\* `${volSlug}_chap_${chapterIndex}_img_${i}`: the local name of an image
ImageKeys == (0..(MaxChapters - 1)) \X (0..(MaxImgs - 1))

\* What was requested to fill a file: the chapter whose page held the <img>
\* and the <img>'s URL (history)
NoOrigin == [chapter |-> "none", img |-> "none"]
CoverOrigin == [chapter |-> "cover", img |-> "cover"]

NoImage == [kind |-> "missing", size |-> 0, complete |-> FALSE, origin |-> NoOrigin]

\* The chapter lists a catalog volume may hold (the parser keeps every link
\* of the list, so a URL may occur twice).
Volumes ==
    SeqsUpTo([name : ChapterNames, url : ChapterUrls], MaxChapters)

\* An <img src>: `images/<local name>`, or any other src
LocalSrc(key) == [local |-> TRUE, key |-> key]
OtherSrc(url) == [local |-> FALSE, url |-> url]

\* src.startsWith('images/')
StartsWithImages(src) == src.local

FileExistsSyncAnySize(f) == f.kind = "file"

\* fileExistsSync: a regular file of size > 0
FileExistsSync(f) == f.kind = "file" /\ f.size > 0

\* validateCachedChapter: content of at least 50 characters whose images/
\* references all exist with size > 0
ValidateCachedChapter(chapterData, imgs) ==
    /\ chapterData.content.len >= MIN_CONTENT_LENGTH
    /\ \A k \in 1..Len(chapterData.content.imgs) :
          LET src == chapterData.content.imgs[k]
          IN StartsWithImages(src) => FileExistsSync(imgs[src.key])

\* loadExistingChapters: Map of url -> chapter, a later chapter of the record
\* replaces an earlier one with the same url
LoadExistingChapters(chapters) ==
    [u \in {chapters[k].url : k \in 1..Len(chapters)} |->
        LET S == {k \in 1..Len(chapters) : chapters[k].url = u}
        IN chapters[CHOOSE k \in S : \A j \in S : j <= k]]

\* downloadVolume's cache loop from position i (1-based) on. A reused chapter
\* is the Map's object itself: finalChapters holds a reference to it and
\* `cachedData.index = i` writes into the Map.
RECURSIVE CacheLoop(_, _, _, _)
CacheLoop(chapters, i, imgs, st) ==
    IF i > Len(chapters) THEN st
    ELSE LET chapter == chapters[i] IN
         IF /\ chapter.url \in DOMAIN st.existing
            /\ ValidateCachedChapter(st.existing[chapter.url], imgs)
           THEN CacheLoop(chapters, i + 1, imgs,
                    [st EXCEPT !.existing[chapter.url].index = i - 1,
                               !.final = Append(@, [cached |-> TRUE, url |-> chapter.url])])
           ELSE CacheLoop(chapters, i + 1, imgs,
                    [st EXCEPT !.tasks = Append(@, [index |-> i - 1, chapter |-> chapter])])

\* A finalChapters entry as the object it refers to.
Deref(existing, e) == IF e.cached THEN existing[e.url] ELSE e.chapter

\* finalChapters.sort((a, b) => a.index - b.index): stable
RECURSIVE SortByIndex(_)
SortByIndex(s) ==
    IF s = <<>> THEN <<>>
    ELSE LET x == s[Len(s)]
             front == SortByIndex(SubSeq(s, 1, Len(s) - 1))
             le == {k \in 1..Len(front) : front[k].index <= x.index}
             n == Cardinality(le)
         IN SubSeq(front, 1, n) \o <<x>> \o SubSeq(front, n + 1, Len(front))

\* What the network does for one downloadToFile: fetchWithRetry throws (or
\* the response has no body), or a body of `total` chunks of which `written`
\* reach the file.
DlOutcomes ==
    {[fetched |-> FALSE, total |-> 0, written |-> 0]} \cup
    UNION {{[fetched |-> TRUE, total |-> t, written |-> w] : w \in 0..t} : t \in 0..ImgChunks}

\* downloadToFile(url, savePath) on the file f at savePath
DownloadToFile(f, url, out) ==
    IF FileExistsWithContent(f) THEN [file |-> f, ok |-> TRUE]
    ELSE IF ~out.fetched THEN [file |-> f, ok |-> FALSE]
    ELSE [file |-> [kind |-> "file", size |-> out.written,
                    complete |-> (out.written = out.total), origin |-> url],
          ok |-> (out.written = out.total)]

\* downloadChapterImages from the k-th <img> on: each is saved under its local
\* name; on success its src becomes the local name, else the <img> is removed.
RECURSIVE DownloadChapterImages(_, _, _, _, _)
DownloadChapterImages(srcs, outs, chapterIndex, k, st) ==
    IF k > Len(srcs) THEN st
    ELSE LET key == <<chapterIndex, k - 1>>
             r == DownloadToFile(st.imgs[key], [chapter |-> st.page, img |-> srcs[k]],
                                 outs[k])
         IN DownloadChapterImages(srcs, outs, chapterIndex, k + 1,
                [imgs |-> [st.imgs EXCEPT ![key] = r.file],
                 kept |-> IF r.ok THEN Append(st.kept, LocalSrc(key)) ELSE st.kept,
                 page |-> st.page])

NoRun ==
    [pc |-> "idle", volume |-> <<>>, existing |-> <<>>, final |-> <<>>, tasks |-> <<>>,
     ti |-> 1,
     \* history: the calls of downloadVolume so far, and of this run
     n |-> 0,
     loaded |-> <<>>, images0 |-> [k \in ImageKeys |-> NoImage], fetched |-> {}]

NoRecord == [exists |-> FALSE, coverImageLocal |-> FALSE, chapters |-> <<>>]

DlIdle ==
    /\ record = NoRecord
    /\ images = [k \in ImageKeys |-> NoImage]
    /\ cover = NoImage
    /\ run = NoRun

\* new NovelDownloader(novel, baseFolder, network) on an empty base folder
DlInit == DlIdle

\* downloadVolume(volume), up to the end of the cache loop
StartVolume(chapters) ==
    /\ run.pc \in {"idle", "done"}
    /\ run.n < MaxRuns
    /\ LET st == CacheLoop(chapters, 1, images,
                           [existing |-> LoadExistingChapters(record.chapters),
                            final |-> <<>>, tasks |-> <<>>])
       IN run' = [pc |-> IF st.tasks = <<>> THEN "save" ELSE "tasks",
                  volume |-> chapters, existing |-> st.existing,
                  final |-> st.final, tasks |-> st.tasks, ti |-> 1,
                  n |-> run.n + 1,
                  loaded |-> record.chapters, images0 |-> images, fetched |-> {}]
    /\ UNCHANGED <<record, images, cover, poolVars, bookVars, netVars, utilVars>>

\* The task is done: the next one, or the save when it was the last.
TaskDone(r) ==
    [r EXCEPT !.ti = r.ti + 1,
              !.pc = IF r.ti + 1 > Len(r.tasks) THEN "save" ELSE "tasks"]

\* One task of tasksToDownload: processChapter(index, chapter, volSlug).
\* The fetch throws or the page has no #chapter-content (null, nothing is
\* pushed), or the page's images are downloaded and the chapter is pushed.
ProcessTask ==
    /\ run.pc = "tasks"
    /\ LET task == run.tasks[run.ti]
           r0 == [run EXCEPT !.fetched = @ \cup {task.index}]
       IN \/ /\ run' = TaskDone(r0)
             /\ UNCHANGED images
          \/ \E len \in ContentLens : \E srcs \in SeqsUpTo(ImgUrls, MaxImgs) :
               \E outs \in [1..Len(srcs) -> DlOutcomes] :
                 LET d == DownloadChapterImages(srcs, outs, task.index, 1,
                                                [imgs |-> images, kept |-> <<>>,
                                                 page |-> task.chapter.url])
                     chapterContent ==
                         [title |-> task.chapter.name, url |-> task.chapter.url,
                          content |-> [len |-> len, imgs |-> d.kept],
                          index |-> task.index]
                 IN /\ images' = d.imgs
                    /\ run' = TaskDone([r0 EXCEPT !.final =
                                  Append(@, [cached |-> FALSE, chapter |-> chapterContent])])
    /\ UNCHANGED <<record, cover, poolVars, bookVars, netVars, utilVars>>

\* downloadVolume after the tasks: the sort, the volume cover, writeJson.
SaveVolume ==
    /\ run.pc = "save"
    /\ \E hasCover \in BOOLEAN : \E out \in DlOutcomes :
         LET r == DownloadToFile(cover, CoverOrigin, out)
             finalChapters ==
                 SortByIndex([k \in 1..Len(run.final) |-> Deref(run.existing, run.final[k])])
         IN /\ cover' = IF hasCover THEN r.file ELSE cover
            /\ record' = [exists |-> TRUE,
                          coverImageLocal |-> (hasCover /\ r.ok),
                          chapters |-> finalChapters]
    /\ run' = [run EXCEPT !.pc = "done"]
    /\ UNCHANGED <<images, poolVars, bookVars, netVars, utilVars>>

\* ================================================= validateCachedChapter
\* What may be found at an image path: nothing, a directory, a regular file
\* of size 0 or of size 1.
PathStates ==
    {NoImage, [NoImage EXCEPT !.kind = "dir"]} \cup
    {[NoImage EXCEPT !.kind = "file", !.size = n, !.complete = TRUE] : n \in 0..1}

\* Lengths of a cached chapter's content around the minimum, 0: no content
CachedLens == {0, MIN_CONTENT_LENGTH - 1, MIN_CONTENT_LENGTH, MIN_CONTENT_LENGTH + 1}

\* The <img> elements of a cached chapter's content
CachedSrcs == {LocalSrc(k) : k \in ImageKeys} \cup {OtherSrc("x")}

NoValidation ==
    [chapterData |-> [title |-> "A", url |-> "u1", content |-> [len |-> 0, imgs |-> <<>>], index |-> 0],
     files |-> [k \in ImageKeys |-> NoImage], returned |-> FALSE, result |-> FALSE]

ValidationIdle == validation = NoValidation

ValidationInit ==
    \E len \in CachedLens : \E srcs \in SeqsUpTo(CachedSrcs, MaxCachedImgs) :
      \E files \in [ImageKeys -> PathStates] :
        validation = [chapterData |-> [title |-> "A", url |-> "u1",
                                       content |-> [len |-> len, imgs |-> srcs], index |-> 0],
                      files |-> files, returned |-> FALSE, result |-> FALSE]

\* validateCachedChapter(chapterData) with the files found under the base folder
ValidateCall ==
    /\ ~validation.returned
    /\ validation' = [validation EXCEPT !.returned = TRUE, !.result =
                          ValidateCachedChapter(validation.chapterData, validation.files)]
    /\ UNCHANGED <<coreVars, metadata, footnotes, proxyUrl, filename, builder, unpacked, parser, socks>>

\* ============================================================ metadata.json
VolumeNames == {"V1", "V2"}
Hrefs == {"h1", "h2"}

NoMetadata == [writer |-> "none", input |-> <<>>, coverImageLocal |-> FALSE, volumes |-> <<>>]

MetadataIdle == metadata = NoMetadata

\* No metadata.json has been written.
MetadataInit == MetadataIdle

\* createMetadataFile's volumeList: novel.volumes.map((vol, i) => ({order: i + 1, ...}))
VolumeList(volumes) ==
    [i \in 1..Len(volumes) |-> [order |-> i, name |-> volumes[i]]]

\* NovelDownloader.createMetadataFile() for a catalog with these volume names
CreateMetadataFile(volumes) ==
    /\ metadata.writer = "none"
    /\ \E mainCover \in BOOLEAN : \E out \in DlOutcomes :
         metadata' = [writer |-> "downloader", input |-> volumes,
                      coverImageLocal |-> (mainCover /\ DownloadToFile(NoImage, CoverOrigin, out).ok),
                      volumes |-> VolumeList(volumes)]
    /\ UNCHANGED <<coreVars, validation, footnotes, proxyUrl, filename, builder, unpacked, parser, socks>>

\* A top-level entry of the container's table of contents: its title, its href
\* ("": none) and the hrefs of its children
TocEntries ==
    [title : VolumeNames, href : Hrefs \cup {""},
     children : SeqsUpTo(Hrefs \cup {""}, MaxChildren)]

\* A Set<string> as the sequence of its members in insertion order
SetAdd(set, h) == IF h \in Range(set) THEN set ELSE Append(set, h)

RECURSIVE SetAddAll(_, _)
SetAddAll(set, hs) ==
    IF hs = <<>> THEN set ELSE SetAddAll(SetAdd(set, Head(hs)), Tail(hs))

NonEmptyHref(h) == h # ""

\* The hrefs of an entry's children (`if (child.href) hrefs.add(child.href)`)
ChildHrefs(entry) == SetAddAll(<<>>, SelectSeq(entry.children, NonEmptyHref))

\* An entry that becomes a volume of a nested table of contents
IsVolumeEntry(entry) == Len(entry.children) > 0 /\ Len(ChildHrefs(entry)) > 0

\* collectHrefs(this.toc)
RECURSIVE CollectHrefs(_, _)
CollectHrefs(toc, set) ==
    IF toc = <<>> THEN set
    ELSE LET entry == Head(toc)
             own == IF entry.href # "" THEN SetAdd(set, entry.href) ELSE set
         IN CollectHrefs(Tail(toc), SetAddAll(own, SelectSeq(entry.children, NonEmptyHref)))

\* The order of the k-th volume pushed (k from 1): `order: order++` from 0
FirstOrder(k) == k - 1

\* buildVolumeDefinitions()
BuildVolumeDefinitions(toc, novelName) ==
    LET nested == SelectSeq(toc, IsVolumeEntry)
        volumes == [k \in 1..Len(nested) |->
                       [name |-> nested[k].title, order |-> FirstOrder(k),
                        hrefs |-> ChildHrefs(nested[k])]]
        all == CollectHrefs(toc, <<>>)
    IN IF volumes # <<>> THEN volumes
       ELSE IF Len(all) > 0 THEN <<[name |-> novelName, order |-> 0, hrefs |-> all]>>
       ELSE <<>>

\* getOrderedChapterHrefs(volumeHrefs, processedHrefs): spine order, else the
\* order of the volume's hrefs
GetOrderedChapterHrefs(volumeHrefs, processedHrefs, spine) ==
    LET InVolume(h) == h \in Range(volumeHrefs) /\ h \notin processedHrefs
        Unprocessed(h) == h \notin processedHrefs
        bySpine == SelectSeq(spine, InVolume)
    IN IF bySpine # <<>> THEN bySpine ELSE SelectSeq(volumeHrefs, Unprocessed)

\* deconstruct()'s loop over the volume definitions from the i-th on, given
\* the hrefs for which processChapterItem returns a chapter: finalVolumes,
\* and the updateHtmlContent calls made, in order
RECURSIVE ProcessVolumes(_, _, _, _, _, _)
ProcessVolumes(defs, i, spine, readable, processedHrefs, acc) ==
    IF i > Len(defs) THEN acc
    ELSE LET volDef == defs[i]
             orderedHrefs == GetOrderedChapterHrefs(volDef.hrefs, processedHrefs, spine)
             Readable(h) == h \in readable
             volumeChapters == SelectSeq(orderedHrefs, Readable)
             IsCall(x) == x.href \in readable
             calls == SelectSeq([k \in 1..Len(orderedHrefs) |->
                                    [volSlug |-> volDef.name, chapterIndex |-> k - 1,
                                     href |-> orderedHrefs[k]]], IsCall)
         IN ProcessVolumes(defs, i + 1, spine, readable,
                processedHrefs \cup Range(orderedHrefs),
                [finalVolumes |->
                    IF orderedHrefs # <<>> /\ volumeChapters # <<>>
                      THEN Append(acc.finalVolumes,
                                  [name |-> volDef.name, order |-> volDef.order,
                                   chapters |-> volumeChapters])
                      ELSE acc.finalVolumes,
                 calls |-> acc.calls \o calls])

\* The images of a container's manifest (hrefs relative to the package
\* document), and an <img src> that names none of them
ImageHrefs == {"c.jpg", "x.png"}
ImgSrcs == ImageHrefs \cup {"gone.png"}

\* A path inside the container: the directory of the package document ("":
\* the root) and a path relative to it
ZipPath(dir, name) == [dir |-> dir, name |-> name]

\* writeFile(join(imagesDir, name), data): the file of that name is replaced
WriteImage(files, name, origin) ==
    {f \in files : f.name # name} \cup {[name |-> name, origin |-> origin]}

\* extractCover(): the cover named by the package document is saved as
\* main_cover.<ext> and entered in imageMap under opfBasePath + href
ExtractCover(c, st) ==
    IF c.cover = "none" THEN st
    ELSE [files |-> WriteImage(st.files, <<"main_cover">>, c.cover),
          imageMap |-> st.imageMap \cup {ZipPath(c.opfBasePath, c.cover)}]

\* updateHtmlContent(content, volSlug, chapterIndex, href) from the m-th
\* <img> on (m from 0); the chapter documents lie next to the package
\* document, so imagePath is the src
RECURSIVE UpdateHtmlContent(_, _, _, _)
UpdateHtmlContent(c, item, m, st) ==
    LET srcs == c.srcs[item.href] IN
    IF m >= Len(srcs) THEN st
    ELSE LET imagePath == srcs[m + 1]
         IN UpdateHtmlContent(c, item, m + 1,
                IF ZipPath("", imagePath) \in st.imageMap THEN st
                ELSE IF imagePath \notin c.images THEN st
                ELSE [files |-> WriteImage(st.files,
                                   <<item.volSlug, item.chapterIndex, m>>, imagePath),
                      imageMap |-> st.imageMap \cup {ZipPath("", imagePath)}])

\* The updateHtmlContent calls of deconstruct(), in order
RECURSIVE UpdateAll(_, _, _)
UpdateAll(c, calls, st) ==
    IF calls = <<>> THEN st
    ELSE UpdateAll(c, Tail(calls), UpdateHtmlContent(c, Head(calls), 0, st))

NoContainer ==
    [toc |-> <<>>, spine |-> <<>>, readable |-> {}, opfBasePath |-> "", images |-> {},
     cover |-> "none", srcs |-> [h \in Hrefs |-> <<>>]]
NoUnpacked == [container |-> NoContainer, files |-> {}]

UnpackedIdle == unpacked = NoUnpacked

\* EpubDeconstructor.deconstruct() on a container
Deconstruct(c) ==
    /\ metadata.writer = "none"
    /\ LET covered == ExtractCover(c, [files |-> {}, imageMap |-> {}])
           built == BuildVolumeDefinitions(c.toc, "N")
           volumeDefinitions ==
               IF built = <<>>
                 THEN <<[name |-> "N", order |-> 0, hrefs |-> SetAddAll(<<>>, c.spine)]>>
                 ELSE built
           done == ProcessVolumes(volumeDefinitions, 1, c.spine, c.readable, {},
                                  [finalVolumes |-> <<>>, calls |-> <<>>])
       IN /\ unpacked' = [container |-> c,
                          files |-> UpdateAll(c, done.calls, covered).files]
          /\ metadata' = [writer |-> "unpackager",
                          input |-> [toc |-> c.toc, spine |-> c.spine],
                          coverImageLocal |-> (c.cover # "none"),
                          volumes |-> [k \in 1..Len(done.finalVolumes) |->
                                          [order |-> done.finalVolumes[k].order,
                                           name |-> done.finalVolumes[k].name]]]
    /\ UNCHANGED <<coreVars, validation, footnotes, proxyUrl, filename, builder, parser, socks>>

\* deconstruct() on the containers that differ in their table of contents,
\* spine and readable documents
DeconstructByToc ==
    /\ metadata.writer = "none"
    /\ \E toc \in SeqsUpTo(TocEntries, MaxToc) : \E spine \in SeqsUpTo(Hrefs, MaxSpine) :
         \E readable \in SUBSET Hrefs :
           Deconstruct([NoContainer EXCEPT !.toc = toc, !.spine = spine,
                                           !.readable = readable])

\* deconstruct() on the containers without table of contents that differ in
\* their images: the manifest's images, the cover among them, the <img>
\* elements of each document, the directory of the package document
DeconstructByImages ==
    /\ metadata.writer = "none"
    /\ \E imgs \in SUBSET ImageHrefs : \E coverHref \in imgs \cup {"none"} :
         \E srcs \in [Hrefs -> SeqsUpTo(ImgSrcs, MaxSrcs)] :
           \E spine \in SeqsUpTo(Hrefs, MaxSpine) : \E readable \in SUBSET Hrefs :
             \E dir \in {"", "OEBPS/"} :
               Deconstruct([NoContainer EXCEPT !.spine = spine, !.readable = readable,
                                               !.opfBasePath = dir, !.images = imgs,
                                               !.cover = coverHref, !.srcs = srcs])

\* ================================================ ContentProcessor footnotes
\* Strings are sequences of tokens, so that the concatenation `${slug}_${id}`
\* of two different pairs can give the same string.
NoteIds == {<<"note", "1">>, <<"note", "2">>}
ChapterSlugs == {<<"a">>, <<"b">>, <<"a", "_", "note", "1">>, <<"a", "_">>}

\* What processFootnotes sees in the HTML, in document order: a definition
\* <div id="noteN"> (with or without text), a marker [noteN] with or without
\* a preceding (1), an anchor <a href="#noteN">.
HtmlItems ==
    [kind : {"def"}, id : NoteIds, content : {"", "text"}] \cup
    [kind : {"marker"}, id : NoteIds, content : {"", "(1)"}] \cup
    [kind : {"anchor"}, id : NoteIds, content : {"1"}]

UniqueIdUnscoped(chapterSlug, noteId) == noteId

\* const uniqueId = `${chapterSlug}_${noteId}`
UniqueId(chapterSlug, noteId) == chapterSlug \o <<"_">> \o noteId

\* footnoteMap.has(noteId), on a Map held as its entries in insertion order
MapHas(map, noteId) == \E k \in 1..Len(map) : map[k].id = noteId

\* footnoteMap.get(noteId) ("": absent)
MapGet(map, noteId) ==
    IF MapHas(map, noteId) THEN map[CHOOSE k \in 1..Len(map) : map[k].id = noteId].content
    ELSE ""

\* footnoteMap.set(id, content): a present key keeps its place
MapSet(map, noteId, content) ==
    IF MapHas(map, noteId)
      THEN [k \in 1..Len(map) |-> IF map[k].id = noteId
                                    THEN [id |-> noteId, content |-> content] ELSE map[k]]
      ELSE Append(map, [id |-> noteId, content |-> content])

\* processFootnotes, step 1: the definitions with text, in document order
RECURSIVE ExtractDefinitions(_, _)
ExtractDefinitions(html, map) ==
    IF html = <<>> THEN map
    ELSE LET el == Head(html)
         IN ExtractDefinitions(Tail(html),
                IF el.kind = "def" /\ el.content # "" THEN MapSet(map, el.id, el.content)
                ELSE map)

\* One html.replace(pattern, ...) pass of convertFootnoteMarkers over the
\* matches of this kind: the usedNotes and the href fragments it emits
RECURSIVE ReplacePass(_, _, _, _, _)
ReplacePass(html, kind, map, chapterSlug, st) ==
    IF html = <<>> THEN st
    ELSE LET el == Head(html)
         IN ReplacePass(Tail(html), kind, map, chapterSlug,
                IF el.kind = kind /\ MapHas(map, el.id)
                  THEN [usedNotes |-> IF el.id \in Range(st.usedNotes) THEN st.usedNotes
                                      ELSE Append(st.usedNotes, el.id),
                        hrefs |-> Append(st.hrefs, UniqueId(chapterSlug, el.id))]
                  ELSE st)

\* convertFootnoteMarkers(html, footnoteMap, chapterSlug)
ConvertFootnoteMarkers(html, map, chapterSlug) ==
    ReplacePass(html, "anchor", map, chapterSlug,
        ReplacePass(html, "marker", map, chapterSlug, [usedNotes |-> <<>>, hrefs |-> <<>>]))

\* generateFootnoteAsides(usedNotes, footnoteMap, chapterSlug, includeUnused):
\* the ids of the asides, in the order they are emitted
GenerateFootnoteAsides(usedNotes, map, chapterSlug, includeUnused) ==
    LET HasContent(noteId) == MapGet(map, noteId) # ""
        Unused(entry) == entry.id \notin Range(usedNotes)
        used == SelectSeq(usedNotes, HasContent)
        unused == IF includeUnused THEN SelectSeq(map, Unused) ELSE <<>>
    IN [k \in 1..Len(used) |-> UniqueId(chapterSlug, used[k])] \o
       [k \in 1..Len(unused) |-> UniqueId(chapterSlug, unused[k].id)]

\* processFootnotes(html, chapterSlug): the noteref hrefs and the aside ids
\* of the HTML it returns
ProcessFootnotes(html, chapterSlug) ==
    LET footnoteMap == ExtractDefinitions(html, <<>>)
        marked == ConvertFootnoteMarkers(html, footnoteMap, chapterSlug)
    IN [done |-> TRUE, hrefs |-> marked.hrefs,
        asides |-> GenerateFootnoteAsides(marked.usedNotes, footnoteMap, chapterSlug, TRUE)]

NoOutput == [done |-> FALSE, hrefs |-> <<>>, asides |-> <<>>]
NoFootnotes == [html |-> <<>>, slugs |-> <<<<"a">>, <<"b">>>>, out |-> <<NoOutput, NoOutput>>]

FootnotesIdle == footnotes = NoFootnotes

\* One chapter HTML and the slugs of two different chapters
FootnotesInit ==
    \E html \in SeqsUpTo(HtmlItems, MaxHtmlItems) : \E s1, s2 \in ChapterSlugs :
       /\ s1 # s2
       /\ footnotes = [html |-> html, slugs |-> <<s1, s2>>, out |-> <<NoOutput, NoOutput>>]

\* processFootnotes(html, slugs[i])
ProcessFootnotesCall(i) ==
    /\ ~footnotes.out[i].done
    /\ footnotes' = [footnotes EXCEPT !.out[i] = ProcessFootnotes(footnotes.html, footnotes.slugs[i])]
    /\ UNCHANGED <<coreVars, validation, metadata, proxyUrl, filename, builder, unpacked, parser, socks>>

\* ============================================================ utils/proxy
SUPPORTED_PROTOCOLS == {"http", "https", "socks5"}
MAX_PORT == 65535

\* The port part of a URL text: absent, not a number, or a number
NoPort == -1
BadPort == -2
PortTexts == {NoPort, BadPort, 0, 1, 80, 443, 1080, MAX_PORT, MAX_PORT + 1}

\* A URL text `<scheme>://[<user>[:<pass>]@]<host>[:<port>]`, by its parts;
\* user and pass are the percent-encoded texts
UrlTexts ==
    [scheme : SUPPORTED_PROTOCOLS \cup {"ftp"}, hasUser : {FALSE}, user : {""},
     hasPass : {FALSE}, pass : {""}, host : {"", "h", "H"}, port : PortTexts]

\* encodeURIComponent / decodeURIComponent on the credentials of the model
EncodeURIComponent(s) ==
    CASE s = "a@b" -> "a%40b"
      [] s = "a%40b" -> "a%2540b"
      [] OTHER -> s

DecodeURIComponent(s) ==
    CASE s = "a%40b" -> "a@b"
      [] s = "a%2540b" -> "a%40b"
      [] OTHER -> s

\* The schemes the URL parser treats as special, with their default port
IsSpecial(scheme) == scheme \in {"http", "https", "ftp"}
SchemeDefaultPort(scheme) ==
    CASE scheme = "http" -> 80 [] scheme = "https" -> 443 [] scheme = "ftp" -> 21 [] OTHER -> NoPort

ToLowerCase(host) == IF host = "H" THEN "h" ELSE host

\* new URL(url): throws on a port that is not a number or is above 65535 and
\* on a special scheme without host; drops the scheme's default port and
\* lower-cases the host of a special scheme
NewURL(url) ==
    IF \/ url.port = BadPort
       \/ url.port > MAX_PORT
       \/ (IsSpecial(url.scheme) /\ url.host = "")
      THEN [ok |-> FALSE, protocol |-> "", hostname |-> "", port |-> NoPort,
            username |-> "", password |-> ""]
      ELSE [ok |-> TRUE, protocol |-> url.scheme,
            hostname |-> IF IsSpecial(url.scheme) THEN ToLowerCase(url.host) ELSE url.host,
            port |-> IF url.port = SchemeDefaultPort(url.scheme) THEN NoPort ELSE url.port,
            username |-> IF url.hasUser THEN url.user ELSE "",
            password |-> IF url.hasPass THEN url.pass ELSE ""]

\* getDefaultPort(protocol)
GetDefaultPort(protocol) ==
    CASE protocol = "http" -> 80 [] protocol = "https" -> 443 [] protocol = "socks5" -> 1080
      [] OTHER -> NoPort

\* isValidProxyUrl(url)
IsValidProxyUrl(url) ==
    LET parsed == NewURL(url)
        port == IF parsed.port # NoPort THEN parsed.port ELSE GetDefaultPort(parsed.protocol)
    IN /\ parsed.ok
       /\ parsed.protocol \in SUPPORTED_PROTOCOLS
       /\ parsed.hostname # ""
       /\ port # NoPort

NoConfig == [protocol |-> "", host |-> "", port |-> 0, username |-> "", password |-> ""]

\* parseProxyUrl(url): the ProxyConfig, or the error thrown
ParseProxyUrl(url) ==
    LET parsed == NewURL(url)
        port == IF parsed.port # NoPort THEN parsed.port ELSE GetDefaultPort(parsed.protocol)
    IN IF ~parsed.ok THEN [error |-> "InvalidFormat", config |-> NoConfig]
       ELSE IF parsed.protocol \notin SUPPORTED_PROTOCOLS
         THEN [error |-> "UnsupportedProtocol", config |-> NoConfig]
       ELSE IF parsed.hostname = "" THEN [error |-> "MissingHost", config |-> NoConfig]
       ELSE IF port <= 0 \/ port > MAX_PORT THEN [error |-> "InvalidPort", config |-> NoConfig]
       ELSE [error |-> "none",
             config |-> [protocol |-> parsed.protocol, host |-> parsed.hostname, port |-> port,
                         username |-> DecodeURIComponent(parsed.username),
                         password |-> DecodeURIComponent(parsed.password)]]

\* buildProxyUrl(config); an absent credential is ""
BuildProxyUrl(config) ==
    [scheme |-> config.protocol,
     hasUser |-> config.username # "",
     user |-> IF config.username # "" THEN EncodeURIComponent(config.username) ELSE "",
     hasPass |-> config.username # "" /\ config.password # "",
     pass |-> IF config.username # "" /\ config.password # ""
                THEN EncodeURIComponent(config.password) ELSE "",
     host |-> config.host,
     port |-> config.port]

\* The Proxy Descriptors: a supported protocol, a host, a port in
\* [1, 65535], optional credentials
ProxyConfigs ==
    [protocol : SUPPORTED_PROTOCOLS, host : {"h"}, port : {1, 80, 443, 1080, MAX_PORT},
     username : {"", "u", "a@b"}, password : {"", "p", "a%40b"}]

NoUrl == [scheme |-> "", hasUser |-> FALSE, user |-> "", hasPass |-> FALSE, pass |-> "",
          host |-> "", port |-> NoPort]
NoProxyUrl ==
    [given |-> "none", url |-> NoUrl, config |-> NoConfig, done |-> FALSE,
     valid |-> FALSE, parsed |-> [error |-> "none", config |-> NoConfig]]

ProxyUrlIdle == proxyUrl = NoProxyUrl

\* A URL text from the command line, or a descriptor to reconstruct
ProxyUrlInit ==
    \/ \E url \in UrlTexts : proxyUrl = [NoProxyUrl EXCEPT !.given = "url", !.url = url]
    \/ \E config \in ProxyConfigs :
         proxyUrl = [NoProxyUrl EXCEPT !.given = "config", !.config = config]

\* isValidProxyUrl(url) and parseProxyUrl(url) on the URL text given
CheckProxyUrl ==
    /\ proxyUrl.given = "url" /\ ~proxyUrl.done
    /\ proxyUrl' = [proxyUrl EXCEPT !.done = TRUE,
                                    !.valid = IsValidProxyUrl(proxyUrl.url),
                                    !.parsed = ParseProxyUrl(proxyUrl.url)]
    /\ UNCHANGED <<coreVars, validation, metadata, footnotes, filename, builder, unpacked, parser, socks>>

\* parseProxyUrl(buildProxyUrl(config)) on the descriptor given
RebuildProxyUrl ==
    /\ proxyUrl.given = "config" /\ ~proxyUrl.done
    /\ LET url == BuildProxyUrl(proxyUrl.config)
       IN proxyUrl' = [proxyUrl EXCEPT !.done = TRUE, !.url = url,
                                       !.valid = IsValidProxyUrl(url),
                                       !.parsed = ParseProxyUrl(url)]
    /\ UNCHANGED <<coreVars, validation, metadata, footnotes, filename, builder, unpacked, parser, socks>>

\* ============================================================= utils/text
FILENAME_LIMIT == 100

\* Characters of a name: a letter, a space, a tab, an invalid character
NameChars == {"a", " ", "TAB", "/"}
InvalidChars == {"/"}
Whitespace == {" ", "TAB"}

\* Names are given as runs of one character, so that names longer than the
\* limit are among them
RunLengths == {1, FILENAME_LIMIT - 1, FILENAME_LIMIT}
Runs == [char : NameChars, count : RunLengths]

RECURSIVE Expand(_)
Expand(runs) ==
    IF runs = <<>> THEN <<>>
    ELSE [k \in 1..Head(runs).count |-> Head(runs).char] \o Expand(Tail(runs))

\* name.replace(/[\\/*?:"<>|]/g, '')
RemoveInvalid(s) == LET Valid(c) == c \notin InvalidChars IN SelectSeq(s, Valid)

\* formatted.replace(/ /g, '_')
ReplaceSpaces(s) == [k \in 1..Len(s) |-> IF s[k] = " " THEN "_" ELSE s[k]]

\* formatted.trim()
Trim(s) ==
    LET solid == {k \in 1..Len(s) : s[k] \notin Whitespace}
    IN IF solid = {} THEN <<>>
       ELSE SubSeq(s, CHOOSE k \in solid : \A j \in solid : k <= j,
                      CHOOSE k \in solid : \A j \in solid : j <= k)

\* formatted.slice(0, n)
Slice(s, n) == SubSeq(s, 1, IF Len(s) < n THEN Len(s) ELSE n)

\* formatFilename(name)
FormatFilename(name) == Slice(Trim(ReplaceSpaces(RemoveInvalid(name))), FILENAME_LIMIT)

NoFilename == [input |-> <<>>, done |-> FALSE, once |-> <<>>, twice |-> <<>>]

FilenameIdle == filename = NoFilename

FilenameInit ==
    \E runs \in SeqsUpTo(Runs, MaxNameRuns) :
       filename = [NoFilename EXCEPT !.input = Expand(runs)]

\* formatFilename(name), and formatFilename of its result
FormatTwice ==
    /\ ~filename.done
    /\ filename' = [filename EXCEPT !.done = TRUE,
                                    !.once = FormatFilename(filename.input),
                                    !.twice = FormatFilename(FormatFilename(filename.input))]
    /\ UNCHANGED <<coreVars, validation, metadata, footnotes, proxyUrl, builder, unpacked, parser, socks>>

\* ============================================================== EpubBuilder
\* Image paths relative to the base folder, as name and extension ("": none);
\* the path with the empty name is the empty string
RelPaths ==
    {[base |-> "a", ext |-> "png"], [base |-> "b", ext |-> "jpg"],
     [base |-> "c", ext |-> "WEBP"], [base |-> "d", ext |-> ""]}
EmptyPath == [base |-> "", ext |-> ""]

\* What is stored at an image path: nothing, an empty file, a file with bytes
StoredImages == {"missing", "empty", "bytes"}

\* The MIME type by extname(relPath).toLowerCase()
MimeOfExt(ext) ==
    CASE ext \in {"png", "PNG"} -> "image/png"
      [] ext \in {"gif", "GIF"} -> "image/gif"
      [] ext \in {"webp", "WEBP"} -> "image/webp"
      [] OTHER -> "image/jpeg"

\* relPath.replace(/\.[^.]+$/, '') + '.jpg'
JpgPath(relPath) == [base |-> relPath.base, ext |-> "jpg"]

NullImage == [null |-> TRUE, mimeType |-> "", newPath |-> EmptyPath, data |-> "none"]

\* processImage(relPath) past the cache, given whether readFile and the
\* transcoder succeed
ProcessImage(compressImages, stored, relPath, readOk, sharpOk) ==
    IF stored # "bytes" THEN NullImage
    ELSE IF ~readOk THEN NullImage
    ELSE IF ~compressImages
      THEN [null |-> FALSE, mimeType |-> MimeOfExt(relPath.ext), newPath |-> relPath,
            data |-> "original"]
    ELSE IF sharpOk
      THEN [null |-> FALSE, mimeType |-> "image/jpeg", newPath |-> JpgPath(relPath),
            data |-> "jpeg"]
    ELSE [null |-> FALSE, mimeType |-> MimeOfExt(relPath.ext), newPath |-> relPath,
          data |-> "original"]

NoBuilder ==
    [compressImages |-> FALSE, files |-> [p \in RelPaths |-> "missing"],
     imageCache |-> [p \in RelPaths |-> NullImage],
     called |-> FALSE, relPath |-> EmptyPath, result |-> NullImage]

BuilderIdle == builder = NoBuilder

\* new EpubBuilder(baseFolder, {compressImages}) on a base folder
BuilderInit ==
    \E compressImages \in BOOLEAN : \E files \in [RelPaths -> StoredImages] :
       builder = [NoBuilder EXCEPT !.compressImages = compressImages, !.files = files]

\* EpubBuilder.processImage(relPath); a cache entry with null = TRUE is an
\* absent key
ProcessImageCall(relPath) ==
    /\ \E readOk, sharpOk \in BOOLEAN :
         LET result ==
               IF relPath = EmptyPath THEN NullImage
               ELSE IF ~builder.imageCache[relPath].null THEN builder.imageCache[relPath]
               ELSE ProcessImage(builder.compressImages, builder.files[relPath], relPath,
                                 readOk, sharpOk)
         IN builder' = [builder EXCEPT
                          !.called = TRUE, !.relPath = relPath, !.result = result,
                          !.imageCache = IF relPath = EmptyPath THEN @
                                         ELSE [@ EXCEPT ![relPath] = result]]
    /\ UNCHANGED <<coreVars, validation, metadata, footnotes, proxyUrl, filename, unpacked, parser, socks>>

\* ================================================ NovelParser.parse
\* A domain of DOMAINS as the text the parser compares with: its labels with
\* "." between them
DomainText(domain) ==
    [k \in 1..(2 * Len(domain) - 1) |-> IF k % 2 = 1 THEN domain[(k + 1) \div 2] ELSE "."]

\* Host texts as written in a url, a sequence of pieces: "." is the dot, any
\* other piece is a run of letters ("x" followed by "docln" reads xdocln)
HostTexts ==
    {<<>>,
     <<"docln", ".", "net">>, <<"DOCLN", ".", "net">>, <<"www", ".", "docln", ".", "net">>,
     <<"x", "docln", ".", "net">>, <<"docln", ".", "net", ".">>,
     <<"docln", ".", "net", ".", "google", ".", "com">>, <<"google", ".", "com">>,
     <<"ln", ".", "hako", ".", "vn">>, <<"hako", ".", "vn">>, <<"docln", ".", "sbs">>,
     <<"net">>}

\* The url argument: not a string, the empty string, or a text with or without
\* a scheme ("none": no "://", as in 'some text') and a host
ParseUrls ==
    [type : {"string"}, scheme : {"none", "http", "https", "ftp"}, host : HostTexts]
      \cup {[type |-> t, scheme |-> "none", host |-> <<>>] : t \in {"nonstring", "empty"}}

HostToLowerCase(host) ==
    [i \in 1..Len(host) |-> IF host[i] = "DOCLN" THEN "docln" ELSE host[i]]

\* new URL(url): throws without a scheme or, for these schemes, without a
\* host; the hostname comes out in lower case
UrlObj(url) ==
    IF url.scheme = "none" \/ url.host = <<>>
    THEN [throws |-> TRUE, protocol |-> "none", hostname |-> <<>>]
    ELSE [throws |-> FALSE, protocol |-> url.scheme, hostname |-> HostToLowerCase(url.host)]

EndsWith(s, suffix) ==
    /\ Len(s) >= Len(suffix)
    /\ SubSeq(s, Len(s) - Len(suffix) + 1, Len(s)) = suffix

IsHakoDomainNoDot(hostname) ==
    \E i \in 1..Len(DOMAINS) :
        hostname = DomainText(DOMAINS[i]) \/ EndsWith(hostname, DomainText(DOMAINS[i]))

IsHakoDomain(hostname) ==
    \E i \in 1..Len(DOMAINS) :
        \/ hostname = DomainText(DOMAINS[i])
        \/ EndsWith(hostname, <<".">> \o DomainText(DOMAINS[i]))

NoValidationError == [kind |-> "none", names |-> <<>>]

\* validateUrl: null (NoValidationError) or the error text, kept as its kind
\* and the text it interpolates
ValidateUrl(url) ==
    IF url.type # "string"
    THEN [kind |-> "required", names |-> <<>>]
    ELSE LET urlObj == UrlObj(url)
         IN IF urlObj.throws THEN [kind |-> "format", names |-> <<"url">>]
            ELSE IF urlObj.protocol \notin {"http", "https"}
                 THEN [kind |-> "protocol", names |-> <<urlObj.protocol>>]
            ELSE IF ~IsHakoDomain(HostToLowerCase(urlObj.hostname))
                 THEN [kind |-> "domain", names |-> HostToLowerCase(urlObj.hostname)]
            ELSE NoValidationError

\* What the try block meets: everything resolves, or fetchWithRetry rejects,
\* or response.text() rejects, or cheerio / parseHtml throws, with an Error
\* or with another value
FetchOutcomes ==
    {"ok", "fetchError", "fetchValue", "textError", "textValue", "parseError", "parseValue"}

NoParser ==
    [url |-> [type |-> "empty", scheme |-> "none", host |-> <<>>], called |-> FALSE,
     success |-> FALSE, error |-> NoValidationError, fetchCalls |-> 0, threw |-> FALSE]

ParserIdle == parser = NoParser

ParserInit == \E url \in ParseUrls : parser = [NoParser EXCEPT !.url = url]

\* parse(url): the validation error is returned before the try block; inside
\* it every rejection and exception is caught and returned
Parse(outcome) ==
    /\ ~parser.called
    /\ LET validationError == ValidateUrl(parser.url)
       IN IF validationError # NoValidationError
          THEN parser' = [parser EXCEPT !.called = TRUE, !.error = validationError]
          ELSE IF outcome = "ok"
               THEN parser' = [parser EXCEPT !.called = TRUE, !.success = TRUE,
                                             !.fetchCalls = 1]
               ELSE parser' = [parser EXCEPT !.called = TRUE, !.fetchCalls = 1,
                                             !.error = [kind |-> "failed",
                                                        names |-> <<outcome>>]]
    /\ UNCHANGED <<coreVars, validation, metadata, footnotes, proxyUrl, filename, builder, unpacked, socks>>

\* ========================================= fetchViaProxy through SOCKS5
\* One fetchWithProxyFailover pass over a pool of SOCKS5 proxies, an attempt
\* (fetchViaProxy) at a time. An attempt arms its timer, sets the tunnel up
\* (SocksClient.createConnection), shakes hands (tls.connect, https only),
\* then writes the request and reads to the end of the stream.

\* What the socket has delivered when it ends: no byte, bytes without a
\* status line, or a response that starts with `HTTP/1.1 <code> <reason>`
RawResponses ==
    {[bytes |-> FALSE, statusLine |-> FALSE, code |-> 0],
     [bytes |-> TRUE, statusLine |-> FALSE, code |-> 0]}
      \cup {[bytes |-> TRUE, statusLine |-> TRUE, code |-> c] : c \in {200, 404, 429, 500}}

\* statusLine?.match(/HTTP\/\d\.\d (\d+) (.+)/)
StatusMatch(raw) == raw.statusLine

\* const status = statusMatch ? parseInt(statusMatch[1]) : 200
ParsedStatus(raw) == IF StatusMatch(raw) THEN raw.code ELSE 200

NoSocks ==
    [pc |-> "idle", n |-> 0, i |-> 0, isHttps |-> FALSE,
     timer |-> "none", aborted |-> FALSE, listening |-> FALSE, socket |-> "none",
     raw |-> [bytes |-> FALSE, statusLine |-> FALSE, code |-> 0],
     status |-> 0, error |-> "none", fetchReturns |-> FALSE]

SocksIdle == socks = NoSocks

\* The attempt through proxies[i] starts: a new AbortController and its timer
Attempt(sk, i) ==
    [sk EXCEPT !.pc = "tunnel", !.i = i, !.timer = "armed", !.aborted = FALSE,
               !.listening = FALSE, !.socket = "none", !.error = "none"]

\* fetchWithProxyFailover's catch: the next proxy, or "All proxies failed"
Rejected(sk, error) ==
    IF sk.i + 1 < sk.n
      THEN Attempt([sk EXCEPT !.error = error], sk.i + 1)
      ELSE [sk EXCEPT !.pc = "allFailed", !.error = error]

\* The request is written: the data / end / error handlers and the abort
\* listener are registered (an abort that has fired is not delivered again)
StartExchange(sk) == [sk EXCEPT !.pc = "http", !.listening = TRUE]

\* fetchWithProxyFailover(url) of a pool of n SOCKS5 proxies, for an http or
\* an https url
SocksStart(n, isHttps) ==
    /\ socks.pc = "idle"
    /\ socks' = Attempt([NoSocks EXCEPT !.n = n, !.isHttps = isHttps], 0)
    /\ UNCHANGED <<coreVars, validation, metadata, footnotes, proxyUrl, filename, builder, unpacked, parser>>

\* createConnection resolves with the socket
TunnelEstablished ==
    /\ socks.pc = "tunnel"
    /\ socks' = IF socks.isHttps
                  THEN [socks EXCEPT !.pc = "tls", !.socket = "open"]
                  ELSE StartExchange([socks EXCEPT !.socket = "open"])
    /\ UNCHANGED <<coreVars, validation, metadata, footnotes, proxyUrl, filename, builder, unpacked, parser>>

\* createConnection rejects (refused, authentication, its own timeout): the
\* catch clears the timer and throws
TunnelFailed ==
    /\ socks.pc = "tunnel"
    /\ \E e \in {"connection", "auth", "timeout", "other"} :
         socks' = Rejected([socks EXCEPT !.timer = IF socks.timer = "armed" THEN "cleared"
                                                    ELSE socks.timer], e)
    /\ UNCHANGED <<coreVars, validation, metadata, footnotes, proxyUrl, filename, builder, unpacked, parser>>

\* 'secureConnect'
TlsSecure ==
    /\ socks.pc = "tls"
    /\ socks' = StartExchange(socks)
    /\ UNCHANGED <<coreVars, validation, metadata, footnotes, proxyUrl, filename, builder, unpacked, parser>>

\* 'error' during the handshake: the awaited promise rejects, the catch
\* clears the timer and throws
TlsError ==
    /\ socks.pc = "tls"
    /\ socks' = Rejected([socks EXCEPT !.socket = "destroyed",
                                       !.timer = IF socks.timer = "armed" THEN "cleared"
                                                 ELSE socks.timer], "other")
    /\ UNCHANGED <<coreVars, validation, metadata, footnotes, proxyUrl, filename, builder, unpacked, parser>>

\* 'end': the timer is cleared, the bytes are parsed and the promise resolves
\* with new Response(body, {status}); fetchWithRetry returns it when
\* response.ok
HttpEnd(raw) ==
    /\ socks.pc = "http"
    /\ socks' = [socks EXCEPT !.pc = "resolved", !.raw = raw,
                              !.status = ParsedStatus(raw),
                              !.timer = IF socks.timer = "armed" THEN "cleared"
                                        ELSE socks.timer,
                              !.fetchReturns = ResponseOk(ParsedStatus(raw))]
    /\ UNCHANGED <<coreVars, validation, metadata, footnotes, proxyUrl, filename, builder, unpacked, parser>>

\* 'error' during the exchange: the timer is cleared and the promise rejects
SocketError ==
    /\ socks.pc = "http"
    /\ socks' = Rejected([socks EXCEPT !.socket = "destroyed",
                                       !.timer = IF socks.timer = "armed" THEN "cleared"
                                                 ELSE socks.timer], "other")
    /\ UNCHANGED <<coreVars, validation, metadata, footnotes, proxyUrl, filename, builder, unpacked, parser>>

\* The attempt's timer fires: controller.abort(). During the tunnel setup the
\* SOCKS client's own timer, armed for the same timeout, ends the attempt.
\* During the handshake nothing listens to the signal. During the exchange
\* the abort listener, when the signal had not fired before it was added,
\* destroys the socket and rejects.
TimerFires ==
    /\ socks.pc \in {"tunnel", "tls", "http"}
    /\ socks.timer = "armed"
    /\ LET fired == [socks EXCEPT !.timer = "fired", !.aborted = TRUE] IN
       socks' = IF socks.pc = "tunnel"
                  THEN Rejected(fired, "timeout")
                ELSE IF socks.pc = "http" /\ socks.listening
                  THEN Rejected([fired EXCEPT !.socket = "destroyed"], "aborted")
                ELSE fired
    /\ UNCHANGED <<coreVars, validation, metadata, footnotes, proxyUrl, filename, builder, unpacked, parser>>

\* ========================================================== specifications
CoreIdle == PoolIdle /\ BooksIdle /\ NetIdle /\ DlIdle
UtilIdle == ValidationIdle /\ MetadataIdle /\ FootnotesIdle /\ ProxyUrlIdle /\ FilenameIdle /\ BuilderIdle /\ UnpackedIdle /\ ParserIdle /\ SocksIdle

InitValidate == CoreIdle /\ ValidationInit /\ MetadataIdle /\ FootnotesIdle /\ ProxyUrlIdle /\ FilenameIdle /\ BuilderIdle /\ UnpackedIdle /\ ParserIdle /\ SocksIdle
NextValidate == ValidateCall
SpecValidate == InitValidate /\ [][NextValidate]_vars

InitMeta == CoreIdle /\ MetadataInit /\ ValidationIdle /\ FootnotesIdle /\ ProxyUrlIdle /\ FilenameIdle /\ BuilderIdle /\ UnpackedIdle /\ ParserIdle /\ SocksIdle
NextMeta ==
    \/ \E volumes \in SeqsUpTo(VolumeNames, MaxVolumes) : CreateMetadataFile(volumes)
    \/ DeconstructByToc
SpecMeta == InitMeta /\ [][NextMeta]_vars

InitFootnotes == CoreIdle /\ FootnotesInit /\ ValidationIdle /\ MetadataIdle /\ ProxyUrlIdle /\ FilenameIdle /\ BuilderIdle /\ UnpackedIdle /\ ParserIdle /\ SocksIdle
NextFootnotes == \E i \in 1..2 : ProcessFootnotesCall(i)
SpecFootnotes == InitFootnotes /\ [][NextFootnotes]_vars

InitProxyUrl == CoreIdle /\ ProxyUrlInit /\ ValidationIdle /\ MetadataIdle /\ FootnotesIdle /\ FilenameIdle /\ BuilderIdle /\ UnpackedIdle /\ ParserIdle /\ SocksIdle
NextProxyUrl == CheckProxyUrl \/ RebuildProxyUrl
SpecProxyUrl == InitProxyUrl /\ [][NextProxyUrl]_vars

InitFilename == CoreIdle /\ FilenameInit /\ ValidationIdle /\ MetadataIdle /\ FootnotesIdle /\ ProxyUrlIdle /\ BuilderIdle /\ UnpackedIdle /\ ParserIdle /\ SocksIdle
NextFilename == FormatTwice
SpecFilename == InitFilename /\ [][NextFilename]_vars

InitBuilder == CoreIdle /\ BuilderInit /\ ValidationIdle /\ MetadataIdle /\ FootnotesIdle /\ ProxyUrlIdle /\ FilenameIdle /\ UnpackedIdle /\ ParserIdle /\ SocksIdle
NextBuilder == \E relPath \in RelPaths \cup {EmptyPath} : ProcessImageCall(relPath)
SpecBuilder == InitBuilder /\ [][NextBuilder]_vars

InitUnpack == CoreIdle /\ UnpackedIdle /\ ValidationIdle /\ MetadataInit /\ FootnotesIdle /\ ProxyUrlIdle /\ FilenameIdle /\ BuilderIdle /\ ParserIdle /\ SocksIdle
NextUnpack == DeconstructByImages
SpecUnpack == InitUnpack /\ [][NextUnpack]_vars

InitPool == PoolInit /\ BooksIdle /\ NetIdle /\ DlIdle /\ UtilIdle
NextPool == GetNextProxy \/ PoolReset
SpecPool == InitPool /\ [][NextPool]_vars

InitBooksConc == BooksInit /\ PoolIdle /\ NetIdle /\ DlIdle /\ UtilIdle
NextBooksConc == \E p \in BookProcs : (\E s \in Slugs : AddRead(p, s)) \/ AddWrite(p)
SpecBooksConc == InitBooksConc /\ [][NextBooksConc]_vars

InitBooksSeq == BooksSeqInit /\ PoolIdle /\ NetIdle /\ DlIdle /\ UtilIdle
NextBooksSeq ==
    \/ \E s \in Slugs : AddBook(s)
    \/ \E s \in Slugs : RemoveBook(s)
SpecBooksSeq == InitBooksSeq /\ [][NextBooksSeq]_vars

InitNet == NetInit /\ file = NoFile /\ BooksIdle /\ DlIdle /\ UtilIdle
NextNet ==
    \/ \E h \in UrlHosts : StartFetch(h)
    \/ AntiBanDone
    \/ DirectFetch
    \/ ProxyFetch
    \/ RotateFetch
    \/ BackoffDone
    \/ Wait429Done
    \/ ResetRequestCount
SpecNet == InitNet /\ [][NextNet]_vars

\* One fetchWithRetry call of a new NetworkManager, from its entry to its
\* return or throw. Each await of the call is settled in the end (the timer
\* of a sleep fires, a fetch answers or rejects), which is the weak fairness
\* of the call's steps.
FirstFetch(h) == reqNo = -1 /\ StartFetch(h)

InitCall == InitNet
NextCall ==
    \/ \E h \in UrlHosts : FirstFetch(h)
    \/ DirectFetch
    \/ ProxyFetch
    \/ RotateFetch
    \/ BackoffDone
    \/ Wait429Done
SpecCall == InitCall /\ [][NextCall]_vars
FairSpecCall ==
    SpecCall /\ WF_vars(DirectFetch) /\ WF_vars(ProxyFetch) /\ WF_vars(RotateFetch)
             /\ WF_vars(BackoffDone) /\ WF_vars(Wait429Done)

\* downloadToFile alone: requestCount stays below REQUESTS_BEFORE_PAUSE here,
\* so that the anti-ban sleep never starts.
InitFile == NetInit /\ FileInit /\ BooksIdle /\ DlIdle /\ UtilIdle
NextFile ==
    \/ \E h \in UrlHosts : StartDownload(h)
    \/ DirectFetch
    \/ ProxyFetch
    \/ RotateFetch
    \/ BackoffDone
    \/ Wait429Done
    \/ DlStream
SpecFile == InitFile /\ [][NextFile]_vars

InitDl == DlInit /\ PoolIdle /\ BooksIdle /\ NetIdle /\ UtilIdle
NextDl ==
    \/ \E chapters \in Volumes : StartVolume(chapters)
    \/ ProcessTask
    \/ SaveVolume
SpecDl == InitDl /\ [][NextDl]_vars

InitParser == CoreIdle /\ ParserInit /\ ValidationIdle /\ MetadataIdle /\ FootnotesIdle /\ ProxyUrlIdle /\ FilenameIdle /\ BuilderIdle /\ UnpackedIdle /\ SocksIdle

NextParser == \E outcome \in FetchOutcomes : Parse(outcome)

SpecParser == InitParser /\ [][NextParser]_vars

InitSocks == CoreIdle /\ SocksIdle /\ ValidationIdle /\ MetadataIdle /\ FootnotesIdle /\ ProxyUrlIdle /\ FilenameIdle /\ BuilderIdle /\ UnpackedIdle /\ ParserIdle
NextSocks ==
    \/ \E n \in 1..MaxProxies : \E isHttps \in BOOLEAN : SocksStart(n, isHttps)
    \/ TunnelEstablished
    \/ TunnelFailed
    \/ TlsSecure
    \/ TlsError
    \/ \E raw \in RawResponses : HttpEnd(raw)
    \/ SocketError
    \/ TimerFires
SpecSocks == InitSocks /\ [][NextSocks]_vars

\* ================================================================== claims
Count(s, x) == Cardinality({i \in 1..Len(s) : s[i] = x})

\* C9: for a pool of n descriptors starting at cursor 0 (fresh or after
\* reset), the i-th getNextProxy call (0-based) returns the descriptor at
\* position i mod n; any n*k consecutive calls return every position exactly
\* k times; the cursor stays within [0, n).
C9_RoundRobin ==
    LET n == Len(proxies) IN
    n > 0 =>
      /\ currentIndex \in 0..(n - 1)
      /\ currentIndex = Len(returned) % n
      /\ \A i \in 1..Len(returned) :
            /\ returned[i].pos = (i - 1) % n
            /\ returned[i].proxy = proxies[((i - 1) % n) + 1]
      /\ \A from \in 1..Len(returned) : \A k \in 1..MaxPoolCalls :
            from + n * k - 1 <= Len(returned) =>
               \A d \in 0..(n - 1) :
                  Cardinality({i \in from..(from + n * k - 1) : returned[i].pos = d}) = k

\* Two full cycles of a pool of at least two descriptors have been returned.
C9_Witness ==
    /\ Len(proxies) >= 2
    /\ Len(returned) = 2 * Len(proxies)

\* C10: once two addBookToList calls for distinct slugs have both completed,
\* books.json holds both slugs, each exactly once.
C10_NoLostAppend ==
    \A p, q \in BookProcs :
        (/\ p # q
         /\ bproc[p].pc = "done" /\ bproc[q].pc = "done"
         /\ bproc[p].slug # bproc[q].slug)
        => /\ Count(booksFile, bproc[p].slug) = 1
           /\ Count(booksFile, bproc[q].slug) = 1

\* C1: fetchWithRetry hands its caller a 2xx response or raises an error:
\* a call that returned holds a response whose status is in [200, 299], a
\* call that threw holds an error.
C1_OnlyOkReturned ==
    /\ call.result.kind = "response" =>
          /\ call.result.status >= 200 /\ call.result.status <= 299
          /\ call.pc \in {"returned", "dl_done"}
    /\ call.pc = "returned" => call.result.kind = "response"
    /\ call.pc = "thrown" => call.result.kind = "error" /\ call.result.error.kind # "none"
    /\ (call.op = "fetch" /\ CallOver(call)) => call.result.kind \in {"response", "error"}

\* The domain rotation has delivered the response of a call whose first
\* answer was not a 2xx.
C1_Witness ==
    /\ call.pc = "returned"
    /\ call.rot > 0
    /\ call.status = 500
    /\ call.result.status = 200

\* C2: downloadToFile on a regular file with size > 0 returns true with no
\* network call, requestCount unchanged and the file not rewritten; a missing
\* or zero-byte (or non-regular) path never takes the shortcut.
C2_ExistingFileSkip ==
    (call.op = "download" /\ call.pc = "dl_done") =>
       IF call.fileAtStart.kind = "file" /\ call.fileAtStart.size > 0
         THEN /\ call.dl = "true"
              /\ call.shortcut
              /\ ~call.netCalled
              /\ ~call.counted
              /\ call.result.kind = "none"
              /\ ~call.wrote
              /\ file = call.fileAtStart
         ELSE ~call.shortcut

\* A download took the shortcut on a file with content.
C2_Witness ==
    /\ call.op = "download"
    /\ call.pc = "dl_done"
    /\ call.shortcut
    /\ call.fileAtStart.size > 0

\* C3: the target is written atomically: a file with size > 0 is there only
\* if a download streamed to completion, a call that returned false leaves no
\* non-empty file, and the existence shortcut never adopts a truncated file.
C3_AtomicWrite ==
    /\ (file.kind = "file" /\ file.size > 0) => file.complete
    /\ (call.pc = "dl_done" /\ call.dl = "false") => ~(file.kind = "file" /\ file.size > 0)
    /\ call.shortcut => call.fileAtStart.complete

\* C6: with a pool of n >= 2 proxies, the request of ordinal j is first
\* dispatched through the proxy at position j mod n.
C6_RoundRobinDispatch ==
    (Len(proxies) >= 2 /\ call.firstProxy # -1 /\ reqNo < MaxReqNo)
      => call.firstProxy = reqNo % Len(proxies)

C8_PauseEveryR == sincePause <= REQUESTS_BEFORE_PAUSE

\* C4: downloadVolume fetches the chapter at a source position if and only if
\* the loaded record has no chapter with its URL or the cached chapter fails
\* validateCachedChapter; a chapter whose cached record is valid is persisted
\* with its title, url and content, its index being its source position.
C4_FetchIffNotCached ==
    run.pc = "done" =>
      LET loaded == LoadExistingChapters(run.loaded) IN
      \A i \in 1..Len(run.volume) :
         LET u == run.volume[i].url
             valid == u \in DOMAIN loaded /\ ValidateCachedChapter(loaded[u], run.images0)
         IN /\ ((i - 1) \in run.fetched) <=> ~valid
            /\ valid => \E k \in 1..Len(record.chapters) :
                           record.chapters[k] = [loaded[u] EXCEPT !.index = i - 1]

\* C5: in a persisted volume record the chapters are in source order and
\* their index values are 0, 1, ..., n-1.
C5_ContiguousIndex ==
    /\ \A k \in 1..Len(record.chapters) : record.chapters[k].index = k - 1
    /\ run.pc = "done" =>
          \A k \in 1..Len(record.chapters) :
             /\ record.chapters[k].index + 1 \in 1..Len(run.volume)
             /\ record.chapters[k].url = run.volume[record.chapters[k].index + 1].url
             /\ \A j \in 1..(k - 1) : record.chapters[j].index <= record.chapters[k].index

\* C11: under sequential addBookToList / removeBookFromList calls from a
\* duplicate-free books.json the list stays duplicate-free and keeps its
\* order; an add of an absent slug appends it and returns true, an add of a
\* present slug changes nothing and returns false, and after an add the slug
\* is in the list exactly once.
C11_SequentialAddOnce ==
    /\ \A i, j \in 1..Len(booksFile) : booksFile[i] = booksFile[j] => i = j
    /\ lastBook.op = "add" =>
          /\ Count(booksFile, lastBook.slug) = 1
          /\ IF Includes(lastBook.before, lastBook.slug)
               THEN booksFile = lastBook.before /\ ~lastBook.ret
               ELSE booksFile = Append(lastBook.before, lastBook.slug) /\ lastBook.ret
    /\ lastBook.op = "remove" =>
          LET keep == {i \in 1..Len(lastBook.before) : lastBook.before[i] # lastBook.slug}
          IN /\ Len(booksFile) = Cardinality(keep)
             /\ \A k \in 1..Len(booksFile) :
                   \E i \in keep : /\ booksFile[k] = lastBook.before[i]
                                   /\ Cardinality({j \in keep : j < i}) = k - 1

\* An add of a slug that the list already held, after which the list is as
\* it was and still holds two entries.
C11_Witness ==
    /\ lastBook.op = "add"
    /\ Includes(lastBook.before, lastBook.slug)
    /\ ~lastBook.ret
    /\ Len(booksFile) >= 2

\* C12: validateCachedChapter returns true exactly when the content has at
\* least 50 characters and every img whose src starts with images/ is a
\* regular file of size > 0 under the base folder; the img elements with any
\* other src do not change the result.
C12_ValidateCached ==
    validation.returned =>
      LET content == validation.chapterData.content
          local == {k \in 1..Len(content.imgs) : content.imgs[k].local}
          found(k) == LET f == validation.files[content.imgs[k].key]
                      IN f.kind = "file" /\ f.size >= 1
      IN /\ validation.result = (content.len >= 50 /\ \A k \in local : found(k))
         /\ validation.result =
              ValidateCachedChapter(
                  [validation.chapterData EXCEPT !.content.imgs = SelectSeq(@, StartsWithImages)],
                  validation.files)

\* A content of 50 characters with an img of another src and an images/ img
\* whose file has size 0: rejected.
C12_Witness ==
    /\ validation.returned /\ ~validation.result
    /\ validation.chapterData.content.len = MIN_CONTENT_LENGTH
    /\ \E k \in 1..Len(validation.chapterData.content.imgs) :
          ~validation.chapterData.content.imgs[k].local
    /\ \E k \in 1..Len(validation.chapterData.content.imgs) :
          LET src == validation.chapterData.content.imgs[k]
          IN /\ src.local
             /\ validation.files[src.key].kind = "file"
             /\ validation.files[src.key].size = 0

\* C13: in every metadata.json written, by createMetadataFile or by
\* deconstruct, the order values of the volume descriptors are 1, 2, ..., k
\* in list order.
C13_DenseOrder ==
    metadata.writer # "none" =>
      \A k \in 1..Len(metadata.volumes) : metadata.volumes[k].order = k

\* C14: every aside id and every noteref href fragment that processFootnotes
\* (through convertFootnoteMarkers and generateFootnoteAsides) emits for a
\* slug starts with the slug followed by "_"; the aside ids of one chapter are
\* pairwise distinct; the aside ids of two different slugs are disjoint.
C14_ScopedFootnoteIds ==
    LET StartsWith(id, slug) ==
            /\ Len(id) > Len(slug)
            /\ SubSeq(id, 1, Len(slug) + 1) = slug \o <<"_">>
    IN /\ \A i \in 1..2 :
            LET o == footnotes.out[i] IN
            /\ \A k \in 1..Len(o.asides) : StartsWith(o.asides[k], footnotes.slugs[i])
            /\ \A k \in 1..Len(o.hrefs) : StartsWith(o.hrefs[k], footnotes.slugs[i])
            /\ \A j, k \in 1..Len(o.asides) : o.asides[j] = o.asides[k] => j = k
       /\ Range(footnotes.out[1].asides) \cap Range(footnotes.out[2].asides) = {}

\* Both chapters are processed, one slug is a prefix of the other, and each
\* got two asides (a referenced note and an unreferenced one) and a noteref.
C14_Witness ==
    /\ footnotes.out[1].done /\ footnotes.out[2].done
    /\ footnotes.slugs = <<<<"a">>, <<"a", "_", "note", "1">>>>
    /\ Len(footnotes.out[1].asides) = 2 /\ Len(footnotes.out[2].asides) = 2
    /\ Len(footnotes.out[1].hrefs) >= 1

\* C15: isValidProxyUrl(s) is true exactly when s parses as a URL with a
\* scheme of http, https or socks5, a non-empty host and a port (explicit or
\* the default) in [1, 65535]; every string it accepts is parsed by
\* parseProxyUrl without error.
C15_ValidIffParses ==
    (proxyUrl.given = "url" /\ proxyUrl.done) =>
      LET url == proxyUrl.url
          wellFormed == NewURL(url).ok
          port == IF url.port = NoPort THEN GetDefaultPort(url.scheme) ELSE url.port
      IN /\ proxyUrl.valid <=> (/\ wellFormed
                                /\ url.scheme \in {"http", "https", "socks5"}
                                /\ url.host # ""
                                /\ port >= 1 /\ port <= 65535)
         /\ proxyUrl.valid => proxyUrl.parsed.error = "none"

\* C16: parseProxyUrl(buildProxyUrl(p)) = p for every Proxy Descriptor p:
\* protocol, host, port, username and password all come back.
C16_ParseReconstruct ==
    (proxyUrl.given = "config" /\ proxyUrl.done) =>
      /\ proxyUrl.parsed.error = "none"
      /\ proxyUrl.parsed.config = proxyUrl.config

\* C17: formatFilename is idempotent: for every string s,
\* formatFilename(formatFilename(s)) = formatFilename(s).
C17_FormatIdempotent ==
    filename.done => filename.twice = filename.once

\* C18: every image processImage returns for a builder with
\* compressImages = true has MIME type image/jpeg and a path ending in .jpg,
\* whatever the transcoder does; with compressImages = false its MIME type is
\* the one of the source extension.
C18_CompressedIsJpeg ==
    (builder.called /\ ~builder.result.null) =>
      IF builder.compressImages
        THEN builder.result.mimeType = "image/jpeg" /\ builder.result.newPath.ext = "jpg"
        ELSE builder.result.mimeType =
               (CASE builder.relPath.ext \in {"png", "PNG"} -> "image/png"
                  [] builder.relPath.ext \in {"gif", "GIF"} -> "image/gif"
                  [] builder.relPath.ext \in {"webp", "WEBP"} -> "image/webp"
                  [] OTHER -> "image/jpeg")

\* C19: unpacking a container whose manifest lists k unique image hrefs (the
\* cover included) leaves exactly k image files under <base>/images/: every
\* image of the container is saved once, none is skipped, none saved twice.
C19_EveryImageOnce ==
    metadata.writer = "unpackager" =>
      /\ Cardinality(unpacked.files) = Cardinality(unpacked.container.images)
      /\ \A img \in unpacked.container.images :
            Cardinality({f \in unpacked.files : f.origin = img}) = 1

\* C20: parse(url) for a url that is malformed, not http(s), or whose host is
\* neither one of DOMAINS nor a name ending with "." and one of them returns
\* a failure with an error that says what is wrong (for a host, naming it)
\* and calls fetchWithRetry zero times; and parse never throws: a call that
\* does not succeed returns an error
C20_InvalidHost ==
    LET url == parser.url
        host == HostToLowerCase(url.host)
    IN ~\E i \in 1..Len(DOMAINS) :
          \/ host = DomainText(DOMAINS[i])
          \/ \E k \in 1..Len(host) :
                /\ host[k] = "."
                /\ SubSeq(host, k + 1, Len(host)) = DomainText(DOMAINS[i])

C20_Malformed == parser.url.type # "string" \/ parser.url.scheme = "none" \/ parser.url.host = <<>>

C20_InvalidUrlNoRequest ==
    parser.called =>
      /\ ~parser.threw
      /\ ~parser.success => parser.error.kind # "none"
      /\ parser.success => parser.error = NoValidationError
      /\ (C20_Malformed \/ parser.url.scheme \notin {"http", "https"} \/ C20_InvalidHost) =>
            /\ ~parser.success
            /\ parser.error.kind \in {"required", "format", "protocol", "domain"}
            /\ parser.fetchCalls = 0
      /\ (~C20_Malformed /\ parser.url.scheme \in {"http", "https"} /\ C20_InvalidHost) =>
            /\ parser.error.kind = "domain"
            /\ parser.error.names = HostToLowerCase(parser.url.host)

C20_Witness ==
    /\ parser.called
    /\ parser.url.scheme = "https"
    /\ parser.url.host = <<"x", "docln", ".", "net">>
    /\ ~parser.success /\ parser.error.kind = "domain" /\ parser.fetchCalls = 0

\* C21: under any configuration, a fetchWithRetry call whose attempts all end
\* in a failure other than 429 dispatches the original request exactly
\* MAX_RETRIES = 3 times before it throws; the backoff sleep that follows
\* attempt a lasts 2^a seconds and occurs only when a < MAX_RETRIES - 1; the
\* error thrown is the last one recorded.
C21_RetryThreeTimes ==
    /\ (call.pc = "thrown" /\ call.rateLimitRetries = 0) =>
          /\ call.dispatches = MAX_RETRIES
          /\ call.result.error = call.lastError
    /\ call.pc = "backoff" =>
          /\ call.attempt < MAX_RETRIES - 1
          /\ call.sleepMs = (2 ^ call.attempt) * 1000

\* C22: a 429 answered while the rate-limit budget lasts does not consume a
\* retry attempt: the k-th 429 of a call (k <= 5) starts a wait of
\* min(30 * k, 120) seconds with the attempt number unchanged, the end of the
\* wait leaves the attempt number (the regular attempts left and the backoff
\* exponent) as it was before the 429, and the step that follows dispatches
\* the same URL again.
C22_RateLimitKeepsAttempt ==
    [][ /\ (call.pc # "wait429" /\ call'.pc = "wait429") =>
              LET k == call'.rateLimitRetries
              IN /\ k = call.rateLimitRetries + 1
                 /\ k <= maxRateLimitRetries
                 /\ call'.sleepMs = (IF 30 * k < 120 THEN 30 * k ELSE 120) * 1000
                 /\ call'.attempt = call.attempt
                 /\ call'.lastError = call.lastError
        /\ call.pc = "wait429" =>
              /\ call'.pc = "attempt"
              /\ call'.attempt = call.attempt
              /\ call'.host = call.host
              /\ call'.dispatches = call.dispatches
        /\ (call.pc = "attempt" /\ call.rateLimitRetries > 0) =>
              /\ call'.dispatches = call.dispatches + 1
              /\ call'.target = call.host
      ]_vars

\* After a backoff and five 429 waits the call is about to dispatch attempt 1
\* again.
C22_Witness ==
    /\ call.pc = "attempt"
    /\ call.rateLimitRetries = maxRateLimitRetries
    /\ call.attempt = 1
    /\ call.dispatches = 6

\* C23: a call waits for at most maxRateLimitRetries = 5 rate limits; the 429
\* after them makes it throw RateLimited in that very step, whatever the
\* attempt number: the last request of the call is the dispatch that was
\* answered 429, no rotation and no sleep follows it.
C23_RateLimitGivesUp ==
    /\ call.rateLimitRetries <= maxRateLimitRetries + 1
    /\ call.pc = "wait429" => call.rateLimitRetries <= maxRateLimitRetries
    /\ call.rateLimitRetries = maxRateLimitRetries + 1 =>
          /\ call.pc = "thrown"
          /\ call.result.error = RateLimited
          /\ call.lastError = RateLimited
          /\ call.status = 429
          /\ call.via \in {"direct", "proxy"}
          /\ call.target = call.host
          /\ call.attempt < MAX_RETRIES
    /\ call.result.error = RateLimited => call.rateLimitRetries = maxRateLimitRetries + 1

\* The sixth 429 of a call arrived in its first attempt, which was never
\* followed by a backoff.
C23_Witness ==
    /\ call.pc = "thrown"
    /\ call.result.error = RateLimited
    /\ call.rateLimitRetries = maxRateLimitRetries + 1
    /\ call.attempt = 0
    /\ call.dispatches = maxRateLimitRetries + 1

\* C24: with a proxy pool, every network request of a call goes out through
\* a proxy of the pool to the host of the call's URL: no direct fetch and no
\* domain-rotation fetch is made, whatever the failure.
C24_PoolOnlyProxied ==
    proxies # <<>> =>
      /\ call.via \in {"none", "proxy"}
      /\ call.via = "proxy" => (call.target = call.host /\ call.i \in 0..Len(proxies))
      /\ call.pc # "rotate"
      /\ call.rot = 0
      /\ call.netCalled => call.via = "proxy"

\* With a pool, a call for an internal URL has thrown an HTTP error after
\* three attempts, each of them through a proxy.
C24_Witness ==
    /\ proxies # <<>>
    /\ call.pc = "thrown"
    /\ IsInternalDomain(call.host)
    /\ call.result.error = HttpError(500)
    /\ call.dispatches = MAX_RETRIES
    /\ call.via = "proxy"

\* C25: the domain rotation keeps the two host lists apart: a rotation
\* request goes to a host other than the URL's own, to a host of DOMAINS when
\* the URL's host is a primary host and to a host of IMAGE_DOMAINS when it is
\* an image host, in list order; when the rotation has failed every other
\* host of the list has been requested.
C25_RotationStaysInSet ==
    LET primary == \E i \in 1..Len(DOMAINS) : HostMatches(call.host, DOMAINS[i])
        image == \E i \in 1..Len(IMAGE_DOMAINS) : HostMatches(call.host, IMAGE_DOMAINS[i])
    IN call.via = "rotation" =>
         /\ proxies = <<>>
         /\ call.target # call.host
         /\ primary => call.target \in Range(DOMAINS)
         /\ image => call.target \in Range(IMAGE_DOMAINS)
         /\ call.pc = "rotate" =>
               \E j \in 1..(call.rot - 1) :
                  /\ DomainList(call.host)[j] = call.target
                  /\ \A k \in (j + 1)..(call.rot - 1) : DomainList(call.host)[k] = call.host
         /\ call.pc \in {"backoff", "thrown"} =>
               call.target = DomainList(call.host)[
                   CHOOSE j \in 1..Len(DomainList(call.host)) :
                       /\ DomainList(call.host)[j] # call.host
                       /\ \A k \in (j + 1)..Len(DomainList(call.host)) :
                             DomainList(call.host)[k] = call.host]

\* C26: requestCount grows by exactly one in every domain-rotation attempt,
\* whatever its outcome (2xx, another status, transport error or timeout); a
\* 429 wait and a backoff sleep leave it unchanged; it decreases only in
\* resetRequestCount.
C26_RotationCounts ==
    [][ /\ call.pc = "rotate" => requestCount' = requestCount + 1
        /\ call.pc \in {"wait429", "backoff"} => requestCount' = requestCount
        /\ requestCount' < requestCount => (CallOver(call) /\ requestCount' = 0 /\ call' = call)
      ]_vars

\* C30: every fetchWithRetry call terminates, by returning a response or by
\* throwing, provided each of its awaits is settled; the original URL is
\* dispatched at most MAX_RETRIES + maxRateLimitRetries = 8 times in a call.
C30_CallTerminates ==
    /\ [](call.dispatches <= MAX_RETRIES + maxRateLimitRetries)
    /\ (call.pc # "idle") ~> CallOver(call)

\* A call is over after eight dispatches of its URL.
C30_Witness ==
    /\ CallOver(call)
    /\ call.pc # "idle"
    /\ call.dispatches = MAX_RETRIES + maxRateLimitRetries

\* C27: every attempt through a SOCKS5 proxy is bounded by its deadline: once
\* the attempt's timer has fired, in whichever phase (tunnel setup, TLS
\* handshake, HTTP exchange), the attempt has failed and its socket is not
\* left open, so that no attempt is pending after its deadline and the pass
\* has moved on to the next proxy.
C27_DeadlineBoundsAttempt ==
    socks.timer = "fired" =>
      /\ socks.pc \notin {"tunnel", "tls", "http"}
      /\ socks.socket # "open"

\* C29: a SOCKS5 exchange resolves with a successful response, one that
\* fetchWithRetry returns, only if the bytes received hold a status line
\* with a 2xx code; no data, or data without a status line, is a failure.
C29_StatusLineRequired ==
    (socks.pc = "resolved" /\ (ResponseOk(socks.status) \/ socks.fetchReturns)) =>
      /\ socks.raw.bytes
      /\ socks.raw.statusLine
      /\ socks.raw.code >= 200 /\ socks.raw.code <= 299

\* C28: every image file a persisted chapter refers to holds what was
\* downloaded for that chapter's own <img>: across the downloadVolume runs on
\* one base folder, the catalog's chapter list changing between them, a
\* chapter's image is never a file saved for another chapter or another URL
\* (stated of the record a run has just written).
C28_ImageOfOwnChapter ==
    (record.exists /\ run.pc = "done") =>
      \A k \in 1..Len(record.chapters) :
        \A m \in 1..Len(record.chapters[k].content.imgs) :
          LET src == record.chapters[k].content.imgs[m]
          IN StartsWithImages(src) =>
               /\ images[src.key].kind = "file"
               /\ images[src.key].origin.chapter = record.chapters[k].url
               /\ images[src.key].origin.img \in ImgUrls

====
